---------------------------- MODULE Spec2Model ----------------------------
(***************************************************************************)
(* A model of device-pilot's event-to-evidence pipeline:                   *)
(*   - Session            (src/src/session.py)                             *)
(*   - SessionManager     (src/src/session_manager.py)                     *)
(*   - SessionRecorder / RecorderManager fan-out (src/src/recorder.py)     *)
(*                                                                         *)
(* Times are integers (seconds).  None is the integer -1.  A Session or a  *)
(* SessionRecorder object is identified by its index in a heap sequence;   *)
(* its id field is a separate value (uuid4()[:8] is a random token, so the *)
(* id is drawn from a small set and may repeat).                           *)
(*                                                                         *)
(* The specifications share the module, each driving one component and    *)
(* leaving the variables of the others at their initial values:            *)
(*   SpecSession   - every sequence of Session method calls on one object  *)
(*   SpecManager   - every sequence of SessionManager calls                *)
(*   SpecFanout    - the watcher threads and the detection thread acting   *)
(*                   on a RecorderManager                                  *)
(*   SpecConcat    - SessionRecorder.finalize building the concat list     *)
(*   SpecBuffer    - HLSBuffer segments, pre-roll and overflow warning     *)
(*   SpecStart     - HLSBuffer.start and stop on the buffer directory      *)
(*   SpecCleanup   - the safe deletion rules of platform.py and their use  *)
(*   SpecDetector  - Detector.analyze_frame and reset                      *)
(*   SpecStop      - PilotSystem.stop under signals, run() and atexit      *)
(*   SpecIds       - RecorderManager sessions keyed by session id          *)
(*   SpecLoop      - the iterations of PilotSystem.run                     *)
(*   SpecReconnect - PilotSystem._reconnect_capture and read failures      *)
(***************************************************************************)
EXTENDS Integers, Sequences, FiniteSets, TLC

(***************************************************************************)
(* Bounds of the model                                                     *)
(***************************************************************************)
MaxTime == 5
MaxStep == 2
MaxSessions == 3
MaxSessionClips == 1
NumIds == 2
CooldownSeconds == 2
MaxClips == 2
MaxRecorders == 2
PreRollSeconds == 3
SegmentDuration == 5
PadWidth == 4
IndexSpan == 3
MaxSegmentIndex == 32
MaxSeconds == 11
MaxEntries == 3
SMOOTHING_WINDOW == 2
HYSTERESIS_FRAMES == 3
MaxScore == 3
MotionThreshold == 1
MaxBrightness == 3
LightJumpThreshold == 1
max_segments == 20
SEGMENT_OVERFLOW_MARGIN == 5
MaxConcatClips == 3
MaxSignals == 2
MaxLoopTime == 4
MaxStartupDelay == 2
MaxMinMotion == 1
MaxReconnectTime == 46
MaxReconnectDelay == 8
SmallReconnectDelay == 3
MaxAttempts == 16
MaxRestarts == 1
OutageSeconds == 12
max_consecutive_failures == 10

None == 0 - 1

Time == 0..MaxTime
Ids == 1..NumIds

RECORDING == "recording"
COOLDOWN == "cooldown"
FINALIZING == "finalizing"
COMPLETED == "completed"
SessionState == {RECORDING, COOLDOWN, FINALIZING, COMPLETED}

(***************************************************************************)
(* Session (session.py)                                                    *)
(***************************************************************************)
Session(id, start_time, last_activity_time) ==
    [id |-> id, state |-> RECORDING, start_time |-> start_time,
     last_activity_time |-> last_activity_time,
     cooldown_start_time |-> None, clips |-> <<>>]

enter_cooldown_Always(s, current_time) ==
    [s EXCEPT !.state = COOLDOWN, !.cooldown_start_time = current_time]

enter_cooldown(s, current_time) ==
    IF s.state = RECORDING
    THEN [s EXCEPT !.state = COOLDOWN, !.cooldown_start_time = current_time]
    ELSE s

extend_recording(s, current_time) ==
    LET s1 == IF s.state = COOLDOWN
              THEN [s EXCEPT !.state = RECORDING, !.cooldown_start_time = None]
              ELSE s
    IN [s1 EXCEPT !.last_activity_time = current_time]

should_finalize_Strict(s, current_time, cooldown_seconds) ==
    IF s.state # COOLDOWN THEN FALSE
    ELSE IF s.cooldown_start_time = None THEN FALSE
    ELSE (current_time - s.cooldown_start_time) > cooldown_seconds

should_finalize(s, current_time, cooldown_seconds) ==
    IF s.state # COOLDOWN THEN FALSE
    ELSE IF s.cooldown_start_time = None THEN FALSE
    ELSE (current_time - s.cooldown_start_time) >= cooldown_seconds

enter_finalizing(s) ==
    IF s.state = COOLDOWN THEN [s EXCEPT !.state = FINALIZING] ELSE s

complete(s) == [s EXCEPT !.state = COMPLETED]

add_clip(s, clip_path) == [s EXCEPT !.clips = Append(@, clip_path)]

is_active(s) == s.state \in {RECORDING, COOLDOWN, FINALIZING}

(***************************************************************************)
(* State                                                                   *)
(***************************************************************************)
VARIABLES
    sess,                \* SpecSession: the Session object under test
    sop,                 \* SpecSession: the last method called on it
    heap,                \* SpecManager: every Session object ever created
    active_sessions,     \* SessionManager.active_sessions: <<id, obj>> in insertion order
    completed_sessions,  \* SessionManager.completed_sessions: objs in append order
    clock,               \* the time of the latest SessionManager call
    call,                \* the latest SessionManager call and how it ended
    cb_log,              \* the callbacks that call fired, in order
    n_start,             \* on_session_start invocations so far
    n_finalize,          \* on_session_finalize invocations so far
    buf_closed,          \* SpecFanout: segments 1..buf_closed of the buffer directory are closed
    buf_open,            \* the transcoder is writing segment buf_closed + 1
    inotify,             \* close_write events the native reader has not read yet
    safe_dir,            \* is_safe_to_delete holds of the session directories
    seen_clips,          \* RecorderManager._seen_clips
    recs,                \* every SessionRecorder object ever created; failed: its
                         \* finalize has not produced the output
    recorders,           \* RecorderManager.recorders: entries [key, rec, live]
    dirs,                \* sessions_dir/<id>: [exists, files]
    mgr,                 \* the session manager's active session: none, active, stuck
    pc,                  \* where each thread is
    clip,                \* the clip each thread is handling
    rec,                 \* the recorder each thread is working on
    it,                  \* each watcher's iterator over recorders.values(): [pos, used]
    handled,             \* per watcher: the clip it accepted last, the recorders registered
                         \* then, and whether it has invoked the clip callback for it
    todo,                \* the detection thread's pre-roll clips still to copy
    concat,              \* SpecConcat: the last SessionRecorder.finalize: its clips (segment
                         \* indices in arrival order) and the lines of concat.txt
    seg_files,           \* SpecBuffer: the indices of the clip_*.ts files in buffer_dir
    next_segment,        \* the index of the transcoder's next segment
    buf_call,            \* the last HLSBuffer call: [op, seconds, before, ret]
    overflow_warned,     \* HLSBuffer._overflow_warned
    warnings,            \* the number of overflow warnings logged
    quiet_seen,          \* no warning was logged yet, or a get_clips call since the
                         \* last warning saw at most max_segments segments
    buffer_dir,          \* SpecStart: the entries under buffer_dir: [name, kind, top]
    transcoder,          \* HLSBuffer._process: stopped or running
    start_log,           \* the last HLSBuffer.start: how many entries it cleared and kept
    phase,               \* SpecCleanup: off, configured, running, stopped
    cfg,                 \* PilotConfig: [sessions_dir, evidence_dir]
    fs,                  \* the file system: the real paths that exist, [path, kind]
    rec_state,           \* per session id: none, active, failed (still registered), done
    rm_log,              \* the real paths of the directory trees deleted so far
    evidence,            \* the real paths of the evidence files written so far
    motion_scores,       \* SpecDetector: Detector._motion_scores, newest last
    motion_state,        \* Detector._motion_state
    low_motion_count,    \* Detector._low_motion_count
    low_run,             \* the frames analyzed since the last one whose smoothed score was
                         \* above the threshold (counted up to HYSTERESIS_FRAMES)
    det_result,          \* the last Detector call and the DetectionResult it returned
    last_brightness,     \* Detector._last_brightness, None when not known
    prev_brightness,     \* the brightness of the frame analyzed before, None when there
                         \* is none since the construction or the last reset
    main_pc,             \* SpecStop: where the main thread is: the run loop, inside
                         \* _restart_buffer or _reconnect_capture, run's finally,
                         \* exited, the at-exit hook, done
    stop_frames,         \* the PilotSystem.stop() calls in progress on the main
                         \* thread, innermost last
    pilot_running,       \* PilotSystem._running
    pilot_stopped,       \* PilotSystem._stopped
    pilot_sessions,      \* the ids in session_manager.active_sessions
    pilot_recorders,     \* the ids in recorder_manager.recorders
    finalize_calls,      \* per id, the _on_session_finalize calls made by stop()
    comp,                \* which components run: buffer watcher, detection capture, transcoder
    stop_calls,          \* how often stop() called each component's stop, and how
                         \* often one took effect
    n_signals,           \* the SIGINT/SIGTERM deliveries so far
    pilot_locked,        \* the ids whose SessionRecorder lock is held by the run
                         \* loop's call of SessionRecorder.finalize
    stop_seen,           \* observed: a clip distributed after stop() began; the ids
                         \* left unfinalized when an outermost stop() returned
    id_recs,             \* SpecIds: the SessionRecorder objects created so far, in order of creation
    id_registry,         \* RecorderManager.recorders: per session id the registered recorder, 0 for none
    id_dirs,             \* per session id, whether sessions_dir/<id> exists and the clip names in it
    id_active,           \* the recorder of the session manager's active session, 0 for none
    id_segments,         \* the number of segments the transcoder has closed
    id_open,             \* the transcoder is writing segment id_segments + 1
    id_gen,              \* the number of restarts of the buffer (_restart_buffer)
    id_seen,             \* RecorderManager._seen_clips: segment names
    id_partial,          \* per session id, the copies in sessions_dir/<id> made of a
                         \* segment that was still being written: <<restarts, name>>
    loop_cfg,            \* SpecLoop: the config attributes run() reads, None for one the object lacks
    loop_time,           \* time.time(), in seconds since run() began
    detection_enabled,   \* run(): detection_enabled
    motion_start_time,   \* run(): motion_start_time, None when not set
    loop_motion_state,   \* run(): motion_state
    last_tick,           \* run(): last_tick
    loop_last,           \* the last iteration of the loop: what it read, what the
                         \* detector said and what the loop did with it
    rc_pc,               \* SpecReconnect: new, reading (run's loop), reconnect (in
                         \* _reconnect_capture), stopped
    rc_time,             \* time.time(), in seconds
    max_reconnect_delay, \* config.max_reconnect_delay, None when the config lacks it
    delay,               \* _reconnect_capture: delay
    disconnect_start,    \* _reconnect_capture: disconnect_start
    buffer_restarted,    \* _reconnect_capture: buffer_restarted
    consecutive_failures,\* run(): consecutive_failures
    attempt,             \* the current _reconnect_capture invocation: the number of
                         \* rounds of its loop so far, the sleep before the last
                         \* one, whether it returned True and whether
                         \* detector.reset() was called before that
    episode              \* the disconnection episode, from the first failed read to
                         \* the next frame read: its start, whether an open()
                         \* succeeded, whether a read or
                         \* an open() failed more than OutageSeconds after the start
                         \* with no open() having succeeded, and the buffer restarts

sessVars == <<sess, sop>>
mgrVars == <<heap, active_sessions, completed_sessions, clock, call, cb_log,
             n_start, n_finalize>>
fanVars == <<buf_closed, buf_open, inotify, safe_dir, seen_clips, recs, recorders,
             dirs, mgr, pc, clip, rec, it, handled, todo>>
coreVars == <<sessVars, mgrVars, fanVars>>
bufVars == <<seg_files, next_segment, buf_call, overflow_warned, warnings, quiet_seen>>
startVars == <<buffer_dir, transcoder, start_log>>
cleanVars == <<phase, cfg, fs, rec_state, rm_log, evidence>>
detVars == <<motion_scores, motion_state, low_motion_count, low_run, det_result,
             last_brightness, prev_brightness>>
stopVars == <<main_pc, stop_frames, pilot_running, pilot_stopped, pilot_sessions,
              pilot_recorders, finalize_calls, comp, stop_calls, n_signals, stop_seen,
              pilot_locked>>
idVars == <<id_recs, id_registry, id_dirs, id_active, id_segments, id_open, id_gen,
           id_seen, id_partial>>
loopVars == <<loop_cfg, loop_time, detection_enabled, motion_start_time,
              loop_motion_state, last_tick, loop_last>>
reconVars == <<rc_pc, rc_time, max_reconnect_delay, delay, disconnect_start, attempt,
               buffer_restarted, consecutive_failures, episode>>
libVars == <<concat, bufVars, startVars, cleanVars, detVars, stopVars, idVars, loopVars, reconVars>>
vars == <<coreVars, libVars>>
notSessVars == <<mgrVars, fanVars, libVars>>
notMgrVars == <<sessVars, fanVars, libVars>>
notFanVars == <<sessVars, mgrVars, libVars>>
notConcatVars == <<coreVars, bufVars, startVars, cleanVars, detVars, stopVars, idVars, loopVars, reconVars>>
notBufVars == <<coreVars, concat, startVars, cleanVars, detVars, stopVars, idVars, loopVars, reconVars>>
notStartVars == <<coreVars, concat, bufVars, cleanVars, detVars, stopVars, idVars, loopVars, reconVars>>
notCleanVars == <<coreVars, concat, bufVars, startVars, detVars, stopVars, idVars, loopVars, reconVars>>
notDetVars == <<coreVars, concat, bufVars, startVars, cleanVars, stopVars, idVars, loopVars, reconVars>>
notStopVars == <<coreVars, concat, bufVars, startVars, cleanVars, detVars, idVars, loopVars, reconVars>>
notIdVars == <<coreVars, concat, bufVars, startVars, cleanVars, detVars, stopVars, loopVars, reconVars>>
notLoopVars == <<coreVars, concat, bufVars, startVars, cleanVars, detVars, stopVars, idVars, reconVars>>
notReconVars == <<coreVars, concat, bufVars, startVars, cleanVars, detVars, stopVars, idVars, loopVars>>

SessInit ==
    /\ sess = Session(1, 0, 0)
    /\ sop = [op |-> "init", t |-> 0, n |-> 0]

MgrInit ==
    /\ heap = <<>>
    /\ active_sessions = <<>>
    /\ completed_sessions = <<>>
    /\ clock = 0
    /\ call = [op |-> "init", now |-> 0, prev |-> 0, raised |-> FALSE, n |-> 0]
    /\ cb_log = <<>>
    /\ n_start = 0
    /\ n_finalize = 0

SessionDirIds == {"s1", "s2"}

Watchers == {"native", "poller"}
Threads == Watchers \cup {"det"}
RecorderIds == 1..MaxRecorders

FanInit ==
    /\ buf_closed = 0
    /\ buf_open = FALSE
    /\ inotify = <<>>
    /\ safe_dir \in BOOLEAN
    /\ seen_clips = {}
    /\ recs = <<>>
    /\ recorders = <<>>
    /\ dirs = [i \in RecorderIds |-> [exists |-> FALSE, files |-> {}]]
    /\ mgr = "none"
    /\ pc = [th \in Threads |-> "idle"]
    /\ clip = [th \in Threads |-> 0]
    /\ rec = [th \in Threads |-> 0]
    /\ it = [w \in Watchers |-> [pos |-> 0, used |-> 0]]
    /\ handled = [w \in Watchers |-> [clip |-> 0, snap |-> {}, called |-> FALSE]]
    /\ todo = <<>>

LibInit ==
    /\ concat = [clips |-> <<>>, lines |-> <<>>]
    /\ seg_files = {}
    /\ next_segment = 0
    /\ buf_call = [op |-> "init", seconds |-> 0, before |-> {}, ret |-> <<>>,
                   warned |-> FALSE]
    /\ overflow_warned = FALSE
    /\ warnings = 0
    /\ quiet_seen = TRUE
    /\ buffer_dir = {}
    /\ transcoder = "stopped"
    /\ start_log = [cleared |-> 0, kept |-> 0]
    /\ phase = "off"
    /\ cfg = [sessions_dir |-> <<>>, evidence_dir |-> <<>>]
    /\ fs = {}
    /\ rec_state = [i \in SessionDirIds |-> "none"]
    /\ rm_log = {}
    /\ evidence = {}
    /\ motion_scores = <<>>
    /\ motion_state = FALSE
    /\ low_motion_count = 0
    /\ low_run = 0
    /\ det_result = [op |-> "init", motion_detected |-> FALSE, above |-> FALSE,
                     brightness |-> None, brightness_delta |-> 0,
                     light_event_detected |-> FALSE, after_light |-> FALSE]
    /\ last_brightness = None
    /\ prev_brightness = None
    /\ main_pc = "loop"
    /\ stop_frames = <<>>
    /\ pilot_running = TRUE
    /\ pilot_stopped = FALSE
    /\ pilot_sessions = {}
    /\ pilot_recorders = {}
    /\ finalize_calls = [i \in SessionDirIds |-> 0]
    /\ comp = [watcher |-> TRUE, capture |-> TRUE, ffmpeg |-> TRUE]
    /\ stop_calls = [cleanup |-> 0, release |-> 0, buffer_stop |-> 0,
                     watcher_stopped |-> 0, ffmpeg_terminated |-> 0]
    /\ n_signals = 0
    /\ pilot_locked = {}
    /\ stop_seen = [clip_in_stop |-> FALSE, unfinalized |-> {}]
    /\ id_recs = <<>>
    /\ id_registry = [i \in Ids |-> 0]
    /\ id_dirs = [i \in Ids |-> [exists |-> FALSE, files |-> {}]]
    /\ id_active = 0
    /\ id_segments = 0
    /\ id_open = FALSE
    /\ id_gen = 0
    /\ id_seen = {}
    /\ id_partial = [i \in Ids |-> {}]
    /\ loop_cfg = [startup_delay_seconds |-> None, min_motion_seconds |-> None]
    /\ loop_time = 0
    /\ detection_enabled = FALSE
    /\ motion_start_time = None
    /\ loop_motion_state = FALSE
    /\ last_tick = 0
    /\ loop_last = [kind |-> "new", at |-> 0, ret |-> FALSE, motion |-> FALSE,
                    light |-> FALSE, forwarded |-> "none", ticked |-> FALSE]
    /\ rc_pc = "new"
    /\ attempt = [k |-> 0, wait |-> 0, returned |-> FALSE, reset |-> FALSE]
    /\ rc_time = 0
    /\ max_reconnect_delay = None
    /\ delay = 0
    /\ disconnect_start = 0
    /\ buffer_restarted = FALSE
    /\ consecutive_failures = 0
    /\ episode = [active |-> FALSE, start |-> 0, opened |-> FALSE,
                  overdue |-> FALSE, restarts |-> 0, failure_restarts |-> 0]

Init == SessInit /\ MgrInit /\ FanInit /\ LibInit

(***************************************************************************)
(* dict (insertion-ordered): a sequence of <<key, value>> pairs            *)
(***************************************************************************)
dict_keys(d) == {d[i][1] : i \in 1..Len(d)}

dict_values(d) == [i \in 1..Len(d) |-> d[i][2]]

dict_set(d, k, v) ==
    IF k \in dict_keys(d)
    THEN [i \in 1..Len(d) |-> IF d[i][1] = k THEN <<k, v>> ELSE d[i]]
    ELSE Append(d, <<k, v>>)

dict_del(d, k) == SelectSeq(d, LAMBDA e : e[1] # k)

Range(q) == {q[i] : i \in 1..Len(q)}

(***************************************************************************)
(* SessionManager (session_manager.py).  An operation maps the manager     *)
(* M = [heap, active, completed, log, raised] to the manager after the     *)
(* call.  log collects the callbacks the call fired, each with the state   *)
(* the session was in when the callback ran; raised tells that a callback  *)
(* raised, which ends the call at that point (no handler in the manager).  *)
(***************************************************************************)
Manager ==
    [heap |-> heap, active |-> active_sessions, completed |-> completed_sessions,
     log |-> <<>>, raised |-> FALSE]

_start_new_session(M, current_time, id, raises) ==
    LET session == Session(id, current_time, current_time)
        obj == Len(M.heap) + 1
    IN [M EXCEPT !.heap = Append(@, session),
                 !.active = dict_set(@, id, obj),
                 !.log = Append(@, [cb |-> "start", obj |-> obj, state |-> session.state]),
                 !.raised = raises]

_finalize_session_NoDel(M, obj, raises) ==
    LET M1 == [M EXCEPT !.heap[obj] = enter_finalizing(@)]
        M2 == [M1 EXCEPT !.log = Append(@, [cb |-> "finalize", obj |-> obj,
                                            state |-> M1.heap[obj].state])]
    IN IF raises THEN [M2 EXCEPT !.raised = TRUE]
       ELSE [M2 EXCEPT !.heap[obj] = complete(@),
                       !.completed = Append(@, obj)]

_finalize_session(M, obj, raises) ==
    LET M1 == [M EXCEPT !.heap[obj] = enter_finalizing(@)]
        M2 == [M1 EXCEPT !.log = Append(@, [cb |-> "finalize", obj |-> obj,
                                            state |-> M1.heap[obj].state])]
    IN IF raises THEN [M2 EXCEPT !.raised = TRUE]
       ELSE [M2 EXCEPT !.active = dict_del(@, M2.heap[obj].id),
                       !.heap[obj] = complete(@),
                       !.completed = Append(@, obj)]

on_motion_detected_UnlessRecording(M, current_time, id, raises) ==
    IF \E o \in Range(dict_values(M.active)) : M.heap[o].state = RECORDING
    THEN [M EXCEPT !.heap = [o \in 1..Len(M.heap) |->
                               IF o \in Range(dict_values(M.active))
                               THEN extend_recording(M.heap[o], current_time)
                               ELSE M.heap[o]]]
    ELSE _start_new_session(M, current_time, id, raises)

on_motion_detected(M, current_time, id, raises) ==
    IF M.active # <<>>
    THEN [M EXCEPT !.heap = [o \in 1..Len(M.heap) |->
                               IF o \in Range(dict_values(M.active))
                               THEN extend_recording(M.heap[o], current_time)
                               ELSE M.heap[o]]]
    ELSE _start_new_session(M, current_time, id, raises)

on_no_motion_ResetsCooldown(M, current_time) ==
    [M EXCEPT !.heap = [o \in 1..Len(M.heap) |->
                          IF /\ o \in Range(dict_values(M.active))
                             /\ M.heap[o].state \in {RECORDING, COOLDOWN}
                          THEN enter_cooldown_Always(M.heap[o], current_time)
                          ELSE M.heap[o]]]

on_no_motion(M, current_time) ==
    [M EXCEPT !.heap = [o \in 1..Len(M.heap) |->
                          IF /\ o \in Range(dict_values(M.active))
                             /\ M.heap[o].state = RECORDING
                          THEN enter_cooldown(M.heap[o], current_time)
                          ELSE M.heap[o]]]

RECURSIVE finalize_each(_, _, _)
finalize_each(M, sessions_to_finalize, raiseAt) ==
    IF sessions_to_finalize = <<>> THEN M
    ELSE LET M1 == _finalize_session(M, Head(sessions_to_finalize), raiseAt = 1)
         IN IF M1.raised THEN M1
            ELSE finalize_each(M1, Tail(sessions_to_finalize), raiseAt - 1)

tick(M, current_time, cooldown_seconds, raiseAt) ==
    LET sessions_to_finalize ==
            SelectSeq(dict_values(M.active),
                      LAMBDA o : should_finalize(M.heap[o], current_time, cooldown_seconds))
    IN finalize_each(M, sessions_to_finalize, raiseAt)

add_clip_to_active_sessions(M, clip_path) ==
    [M EXCEPT !.heap = [o \in 1..Len(M.heap) |->
                          IF o \in Range(dict_values(M.active))
                          THEN add_clip(M.heap[o], clip_path)
                          ELSE M.heap[o]]]

(***************************************************************************)
(* SpecSession: any method of Session, in any order, on one object.        *)
(***************************************************************************)
SessCall(op, t) == sop' = [op |-> op, t |-> t, n |-> 1 - sop.n]

EnterCooldown ==
    \E t \in Time :
        /\ sess' = enter_cooldown(sess, t)
        /\ SessCall("enter_cooldown", t)
        /\ UNCHANGED notSessVars

ExtendRecording ==
    \E t \in Time :
        /\ sess' = extend_recording(sess, t)
        /\ SessCall("extend_recording", t)
        /\ UNCHANGED notSessVars

EnterFinalizing ==
    /\ sess' = enter_finalizing(sess)
    /\ SessCall("enter_finalizing", 0)
    /\ UNCHANGED notSessVars

Complete ==
    /\ sess' = complete(sess)
    /\ SessCall("complete", 0)
    /\ UNCHANGED notSessVars

AddClip ==
    /\ Len(sess.clips) < MaxSessionClips
    /\ sess' = add_clip(sess, 1)
    /\ SessCall("add_clip", 0)
    /\ UNCHANGED notSessVars

SessNext == EnterCooldown \/ ExtendRecording \/ EnterFinalizing \/ Complete \/ AddClip

SpecSession == Init /\ [][SessNext]_vars

(***************************************************************************)
(* SpecManager: any sequence of SessionManager calls at non-decreasing     *)
(* times, with both callbacks installed.  A callback either returns or     *)
(* raises (PilotSystem._on_session_finalize reaches the unguarded          *)
(* open()/mkdir() of SessionRecorder.finalize; _on_session_start reaches   *)
(* shutil.copy2 in SessionRecorder.add_clip).                              *)
(***************************************************************************)
Nows == {t \in Time : clock <= t /\ t <= clock + MaxStep}

MgrCall(op, now, M) ==
    /\ heap' = M.heap
    /\ active_sessions' = M.active
    /\ completed_sessions' = M.completed
    /\ cb_log' = M.log
    /\ n_start' = n_start + Cardinality({i \in 1..Len(M.log) : M.log[i].cb = "start"})
    /\ n_finalize' = n_finalize + Cardinality({i \in 1..Len(M.log) : M.log[i].cb = "finalize"})
    /\ call' = [op |-> op, now |-> now, prev |-> clock, raised |-> M.raised, n |-> 1 - call.n]
    /\ clock' = now

OnMotionDetected ==
    \E now \in Nows, id \in Ids, raises \in BOOLEAN :
        /\ active_sessions = <<>> => Len(heap) < MaxSessions
        /\ MgrCall("motion", now, on_motion_detected(Manager, now, id, raises))
        /\ UNCHANGED notMgrVars

OnNoMotion ==
    \E now \in Nows :
        /\ MgrCall("no_motion", now, on_no_motion(Manager, now))
        /\ UNCHANGED notMgrVars

Tick ==
    \E now \in Nows, raiseAt \in 0..1 :
        /\ MgrCall("tick", now, tick(Manager, now, CooldownSeconds, raiseAt))
        /\ UNCHANGED notMgrVars

AddClipToActiveSessions ==
    /\ \A i \in 1..Len(active_sessions) :
           Len(heap[active_sessions[i][2]].clips) < MaxSessionClips
    /\ active_sessions # <<>>
    /\ MgrCall("add_clip", clock, add_clip_to_active_sessions(Manager, 1))
    /\ UNCHANGED notMgrVars

MgrNext == OnMotionDetected \/ OnNoMotion \/ Tick \/ AddClipToActiveSessions

SpecManager == Init /\ [][MgrNext]_vars

(***************************************************************************)
(* SpecFanout: the recorder fan-out (recorder.py) under its three threads. *)
(*   native - the reader thread of the directory watcher (platform.py),    *)
(*            calling RecorderManager._on_new_clip for each close_write    *)
(*   poller - RecorderManager._poll_for_clips                              *)
(*   det    - the detection loop, in which the session manager runs        *)
(*            PilotSystem._on_session_start and _on_session_finalize       *)
(* The session manager is reduced to what it does to the fan-out: it has   *)
(* no active session (none), one (active), or one left in FINALIZING by a  *)
(* callback that raised (stuck): it starts a session only from none and    *)
(* finalizes only the active one.  Distinct sessions have distinct ids     *)
(* here.  The transcoder produces segments 1..MaxClips and removes none    *)
(* (its rolling window is longer than the run).                            *)
(***************************************************************************)
SetPc(th, p) == pc' = [pc EXCEPT ![th] = p]

\* a thread leaves the frames of the call it was in: their locals are gone
NoIter == [pos |-> 0, used |-> 0]

Leave(th, p) ==
    /\ pc' = [pc EXCEPT ![th] = p]
    /\ clip' = [clip EXCEPT ![th] = 0]
    /\ rec' = [rec EXCEPT ![th] = 0]
    /\ it' = IF th \in Watchers THEN [it EXCEPT ![th] = NoIter] ELSE it

BufferFiles == 1..(buf_closed + (IF buf_open THEN 1 ELSE 0))

\* HLSBuffer.get_preroll_clips on the sorted segment list 1..n
get_preroll_clips(n, seconds, segment_duration) ==
    LET num_clips == (seconds \div segment_duration) + 1
    IN IF n = 0 THEN <<>>
       ELSE IF n >= num_clips THEN [i \in 1..num_clips |-> n - num_clips + i]
       ELSE [i \in 1..n |-> i]

\* recorders: a CPython dict.  A deleted entry keeps its slot (the iterator
\* walks the slots), a new key takes the next slot, a present key keeps its.
LiveEntries(d) == {i \in 1..Len(d) : d[i].live}

recorders_set(d, k, r) ==
    IF \E i \in LiveEntries(d) : d[i].key = k
    THEN [i \in 1..Len(d) |-> IF d[i].live /\ d[i].key = k
                               THEN [d[i] EXCEPT !.rec = r] ELSE d[i]]
    ELSE Append(d, [key |-> k, rec |-> r, live |-> TRUE])

recorders_del(d, k) ==
    [i \in 1..Len(d) |-> IF d[i].key = k THEN [d[i] EXCEPT !.live = FALSE] ELSE d[i]]

recorders_get(d, k) ==
    IF \E i \in LiveEntries(d) : d[i].key = k
    THEN d[CHOOSE i \in LiveEntries(d) : d[i].key = k].rec
    ELSE 0

Registered == {recorders[i].rec : i \in LiveEntries(recorders)}

\* threading.Lock of a SessionRecorder
lock_free_Always(rc, th) == TRUE

lock_free(rc, th) == rc.lock = "free"

\* where a thread goes when add_clip returns, and when it raises
AfterAddClip(th) == IF th = "det" THEN "preroll" ELSE "next"

AfterRaise(th) == IF th = "native" THEN "dead" ELSE "idle"

\* PilotSystem.stop has not run
Running == pc["det"] # "stopped"

(* the transcoder *)
TranscoderOpens ==
    /\ Running
    /\ ~buf_open /\ buf_closed < MaxClips
    /\ buf_open' = TRUE
    /\ UNCHANGED <<buf_closed, inotify, safe_dir, seen_clips, recs, recorders, dirs,
                   mgr, pc, clip, rec, it, handled, todo>>
    /\ UNCHANGED notFanVars

TranscoderCloses ==
    /\ Running
    /\ buf_open
    /\ buf_open' = FALSE
    /\ buf_closed' = buf_closed + 1
    /\ inotify' = Append(inotify, buf_closed + 1)
    /\ UNCHANGED <<safe_dir, seen_clips, recs, recorders, dirs, mgr, pc, clip, rec,
                   it, handled, todo>>
    /\ UNCHANGED notFanVars

(* the native reader: one close_write line, then callback(path) *)
NativeReads ==
    /\ Running
    /\ pc["native"] = "idle" /\ inotify # <<>>
    /\ inotify' = Tail(inotify)
    /\ IF Head(inotify) \in BufferFiles
       THEN /\ SetPc("native", "check")
            /\ clip' = [clip EXCEPT !["native"] = Head(inotify)]
       ELSE UNCHANGED <<pc, clip>>
    /\ UNCHANGED <<buf_closed, buf_open, safe_dir, seen_clips, recs, recorders, dirs,
                   mgr, rec, it, handled, todo>>
    /\ UNCHANGED notFanVars

(* the poller: a file of the glob that is not in _seen_clips and whose size
   was the same, and positive, 100 ms apart: a closed segment, or the open
   one when the transcoder wrote nothing to it in between *)
PollerScans ==
    /\ Running
    /\ pc["poller"] = "idle"
    /\ \E c \in BufferFiles :
           /\ c \notin seen_clips
           /\ SetPc("poller", "check")
           /\ clip' = [clip EXCEPT !["poller"] = c]
    /\ UNCHANGED <<buf_closed, buf_open, inotify, safe_dir, seen_clips, recs, recorders,
                   dirs, mgr, rec, it, handled, todo>>
    /\ UNCHANGED notFanVars

(* _on_new_clip: if clip_name in self._seen_clips: return *)
OnNewClipChecks(w) ==
    /\ pc[w] = "check"
    /\ IF clip[w] \in seen_clips
       THEN Leave(w, "idle")
       ELSE SetPc(w, "mark") /\ UNCHANGED <<clip, rec, it>>
    /\ UNCHANGED <<buf_closed, buf_open, inotify, safe_dir, seen_clips, recs, recorders,
                   dirs, mgr, handled, todo>>
    /\ UNCHANGED notFanVars

(* _on_new_clip: self._seen_clips.add(clip_name); add_clip_to_sessions
   creates the iterator of self.recorders.values() *)
OnNewClipAccepts(w) ==
    /\ pc[w] = "mark"
    /\ seen_clips' = seen_clips \cup {clip[w]}
    /\ it' = [it EXCEPT ![w] = [pos |-> 1, used |-> Cardinality(LiveEntries(recorders))]]
    /\ handled' = [handled EXCEPT ![w] = [clip |-> clip[w], snap |-> Registered,
                                          called |-> FALSE]]
    /\ SetPc(w, "next")
    /\ UNCHANGED <<buf_closed, buf_open, inotify, safe_dir, recs, recorders, dirs, mgr,
                   clip, rec, todo>>
    /\ UNCHANGED notFanVars

(* add_clip_to_sessions: one step of `for recorder in self.recorders.values()`.
   When the iteration ends, _on_new_clip invokes the clip callback (one is
   registered with start_buffer_watcher) and returns.
   The iterator raises RuntimeError when the dict's size is not the size it
   was created with; the native reader ends on an exception, the poller
   logs it and scans again. *)
IterNext(w) ==
    /\ pc[w] = "next"
    /\ LET rest == {i \in LiveEntries(recorders) : i >= it[w].pos}
           i == CHOOSE j \in rest : \A k \in rest : j <= k
       IN IF Cardinality(LiveEntries(recorders)) # it[w].used
          THEN Leave(w, AfterRaise(w)) /\ UNCHANGED handled
          ELSE IF rest = {}
          THEN /\ Leave(w, "idle")
               /\ handled' = [handled EXCEPT ![w].called = TRUE]
          ELSE /\ SetPc(w, "acquire")
               /\ rec' = [rec EXCEPT ![w] = recorders[i].rec]
               /\ it' = [it EXCEPT ![w].pos = i + 1]
               /\ UNCHANGED <<clip, handled>>
    /\ UNCHANGED <<buf_closed, buf_open, inotify, safe_dir, seen_clips, recs, recorders,
                   dirs, mgr, todo>>
    /\ UNCHANGED notFanVars

(* SessionRecorder.add_clip: with self._lock *)
AddClipLocks(th) ==
    /\ pc[th] = "acquire"
    /\ lock_free(recs[rec[th]], th)
    /\ recs' = [recs EXCEPT ![rec[th]].lock = th]
    /\ SetPc(th, "exists")
    /\ UNCHANGED <<buf_closed, buf_open, inotify, safe_dir, seen_clips, recorders, dirs,
                   mgr, clip, rec, it, handled, todo>>
    /\ UNCHANGED notFanVars

(* SessionRecorder.add_clip: if not dest.exists() *)
AddClipTests(th) ==
    /\ pc[th] = "exists"
    /\ LET d == dirs[recs[rec[th]].session_id]
       IN IF d.exists /\ clip[th] \in d.files
          THEN /\ recs' = [recs EXCEPT ![rec[th]].lock = "free"]
               /\ SetPc(th, AfterAddClip(th))
          ELSE /\ SetPc(th, "copy")
               /\ UNCHANGED recs
    /\ UNCHANGED <<buf_closed, buf_open, inotify, safe_dir, seen_clips, recorders, dirs,
                   mgr, clip, rec, it, handled, todo>>
    /\ UNCHANGED notFanVars

(* SessionRecorder.add_clip: shutil.copy2(clip_path, dest); self.clips.append(dest).
   copy2 raises when the session directory is gone. *)
AddClipCopies(th) ==
    /\ pc[th] = "copy"
    /\ LET id == recs[rec[th]].session_id
       IN IF dirs[id].exists
          THEN /\ dirs' = [dirs EXCEPT ![id].files = @ \cup {clip[th]}]
               /\ recs' = [recs EXCEPT ![rec[th]].clips = Append(@, clip[th]),
                                       ![rec[th]].lock = "free"]
               /\ SetPc(th, AfterAddClip(th))
               /\ UNCHANGED <<clip, rec, it>>
          ELSE /\ recs' = [recs EXCEPT ![rec[th]].lock = "free"]
               /\ Leave(th, AfterRaise(th))
               /\ UNCHANGED dirs
    /\ UNCHANGED <<buf_closed, buf_open, inotify, safe_dir, seen_clips, recorders, mgr,
                   handled, todo>>
    /\ UNCHANGED notFanVars

(* on_motion_detected with no active session: _start_new_session fires
   PilotSystem._on_session_start: get_preroll_clips, then start_session
   makes the directory and the SessionRecorder *)
SessionStarts ==
    /\ pc["det"] = "idle" /\ mgr = "none"
    /\ Len(recs) < MaxRecorders
    /\ LET id == Len(recs) + 1
       IN /\ mgr' = "active"
          /\ todo' = get_preroll_clips(Cardinality(BufferFiles), PreRollSeconds, SegmentDuration)
          /\ dirs' = [dirs EXCEPT ![id] = [exists |-> TRUE, files |-> {}]]
          /\ recs' = Append(recs, [session_id |-> id, clips |-> <<>>, lock |-> "free",
                                  failed |-> FALSE])
          /\ rec' = [rec EXCEPT !["det"] = id]
          /\ SetPc("det", "preroll")
    /\ UNCHANGED <<buf_closed, buf_open, inotify, safe_dir, seen_clips, recorders, clip,
                   it, handled>>
    /\ UNCHANGED notFanVars

(* start_session: for clip in preroll_clips: recorder.add_clip(clip) *)
PrerollNext ==
    /\ pc["det"] = "preroll" /\ todo # <<>>
    /\ clip' = [clip EXCEPT !["det"] = Head(todo)]
    /\ todo' = Tail(todo)
    /\ SetPc("det", "acquire")
    /\ UNCHANGED <<buf_closed, buf_open, inotify, safe_dir, seen_clips, recs, recorders,
                   dirs, mgr, rec, it, handled>>
    /\ UNCHANGED notFanVars

(* start_session: self.recorders[session_id] = recorder *)
SessionRegisters ==
    /\ pc["det"] = "preroll" /\ todo = <<>>
    /\ recorders' = recorders_set(recorders, recs[rec["det"]].session_id, rec["det"])
    /\ SetPc("det", "idle")
    /\ clip' = [clip EXCEPT !["det"] = 0]
    /\ UNCHANGED <<buf_closed, buf_open, inotify, safe_dir, seen_clips, recs, dirs, mgr,
                   rec, it, handled, todo>>
    /\ UNCHANGED notFanVars

(* tick: _finalize_session fires PilotSystem._on_session_finalize:
   finalize_session looks the recorder up *)
SessionFinalizes ==
    /\ pc["det"] = "idle" /\ mgr = "active"
    /\ LET r == recorders_get(recorders, recs[rec["det"]].session_id)
       IN IF r = 0
          THEN mgr' = "none" /\ UNCHANGED <<pc, rec>>
          ELSE /\ rec' = [rec EXCEPT !["det"] = r]
               /\ SetPc("det", "fin_lock")
               /\ UNCHANGED mgr
    /\ UNCHANGED <<buf_closed, buf_open, inotify, safe_dir, seen_clips, recs, recorders,
                   dirs, clip, it, handled, todo>>
    /\ UNCHANGED notFanVars

(* SessionRecorder.finalize: with self._lock *)
FinalizeLocks ==
    /\ pc["det"] = "fin_lock"
    /\ lock_free(recs[rec["det"]], "det")
    /\ recs' = [recs EXCEPT ![rec["det"]].lock = "det"]
    /\ SetPc("det", "fin_run")
    /\ UNCHANGED <<buf_closed, buf_open, inotify, safe_dir, seen_clips, recorders, dirs,
                   mgr, clip, rec, it, handled, todo>>
    /\ UNCHANGED notFanVars

(* SessionRecorder.finalize under the lock: no clips -> None; the concat
   list and the concatenator -> the output path (ok), None (fail), or an
   exception of the unguarded open()/mkdir() (raise), which leaves the
   session in the manager's active map *)
FinalizeRuns ==
    /\ pc["det"] = "fin_run"
    /\ \E outcome \in {"ok", "fail", "raise"} :
           /\ recs[rec["det"]].clips = <<>> => outcome = "fail"
           /\ IF outcome = "ok"
              THEN SetPc("det", "fin_cleanup") /\ UNCHANGED <<clip, rec, it>>
              ELSE Leave("det", "idle")
           /\ mgr' = CASE outcome = "ok" -> "active"
                       [] outcome = "fail" -> "none"
                       [] outcome = "raise" -> "stuck"
           /\ recs' = [recs EXCEPT ![rec["det"]].lock = "free",
                                   ![rec["det"]].failed = (outcome # "ok")]
    /\ UNCHANGED <<buf_closed, buf_open, inotify, safe_dir, seen_clips, recorders, dirs,
                   handled, todo>>
    /\ UNCHANGED notFanVars

(* finalize_session: recorder.cleanup() -> safe_rmtree(session_dir) *)
FinalizeCleansUp ==
    /\ pc["det"] = "fin_cleanup"
    /\ dirs' = IF safe_dir
               THEN [dirs EXCEPT ![recs[rec["det"]].session_id] =
                                      [exists |-> FALSE, files |-> {}]]
               ELSE dirs
    /\ SetPc("det", "fin_del")
    /\ UNCHANGED <<buf_closed, buf_open, inotify, safe_dir, seen_clips, recs, recorders,
                   mgr, clip, rec, it, handled, todo>>
    /\ UNCHANGED notFanVars

(* finalize_session: del self.recorders[session_id]; the callback returns
   and _finalize_session completes the session *)
FinalizeUnregisters ==
    /\ pc["det"] = "fin_del"
    /\ recorders' = recorders_del(recorders, recs[rec["det"]].session_id)
    /\ mgr' = "none"
    /\ Leave("det", "idle")
    /\ UNCHANGED <<buf_closed, buf_open, inotify, safe_dir, seen_clips, recs, dirs,
                   handled, todo>>
    /\ UNCHANGED notFanVars

(* PilotSystem.stop with no active session: RecorderManager.cleanup stops
   the watchers (a call they are in runs to its end), runs
   recorder.cleanup() -> safe_rmtree(session_dir) on every recorder still
   in the map, and clears the map; then the transcoder is stopped *)
Shutdown ==
    /\ pc["det"] = "idle" /\ mgr = "none"
    /\ SetPc("det", "stopped")
    /\ dirs' = IF safe_dir
               THEN [i \in RecorderIds |->
                        IF \E r \in Registered : recs[r].session_id = i
                        THEN [exists |-> FALSE, files |-> {}]
                        ELSE dirs[i]]
               ELSE dirs
    /\ recorders' = [i \in 1..Len(recorders) |-> [recorders[i] EXCEPT !.live = FALSE]]
    /\ UNCHANGED <<buf_closed, buf_open, inotify, safe_dir, seen_clips, recs, mgr,
                   clip, rec, it, handled, todo>>
    /\ UNCHANGED notFanVars

FanNext ==
    \/ TranscoderOpens
    \/ TranscoderCloses
    \/ NativeReads
    \/ PollerScans
    \/ \E w \in Watchers : OnNewClipChecks(w)
    \/ \E w \in Watchers : OnNewClipAccepts(w)
    \/ \E w \in Watchers : IterNext(w)
    \/ \E th \in Threads : AddClipLocks(th)
    \/ \E th \in Threads : AddClipTests(th)
    \/ \E th \in Threads : AddClipCopies(th)
    \/ SessionStarts
    \/ PrerollNext
    \/ SessionRegisters
    \/ SessionFinalizes
    \/ FinalizeLocks
    \/ FinalizeRuns
    \/ FinalizeCleansUp
    \/ FinalizeUnregisters
    \/ Shutdown

SpecFanout == Init /\ [][FanNext]_vars

(***************************************************************************)
(* SpecConcat: the concat manifest of SessionRecorder.finalize             *)
(* (recorder.py) over the segment names the transcoder produces            *)
(* (buffer.py).  A name is the sequence of its character codes from the    *)
(* index on: the digits of "%04d" and the "." of ".ts" (the prefix "clip_" *)
(* and the rest of the suffix are the same in every name).                 *)
(***************************************************************************)
RECURSIVE Digits(_)
Digits(n) == IF n < 10 THEN <<n>> ELSE Append(Digits(n \div 10), n % 10)

\* "%0<width>d"
ZeroPad(n, width) ==
    LET ds == Digits(n)
    IN IF Len(ds) >= width THEN ds
       ELSE [i \in 1..(width - Len(ds)) |-> 0] \o ds

\* -hls_segment_filename clip_%04d.ts
clip_name(index) ==
    LET ds == ZeroPad(index, PadWidth)
    IN [i \in 1..Len(ds) |-> 48 + ds[i]] \o <<46>>

\* str.__lt__: the first differing character decides, a proper prefix is less
str_lt(a, b) ==
    \E k \in 1..(Len(a) + 1) :
        /\ \A i \in 1..(k - 1) : i <= Len(b) /\ a[i] = b[i]
        /\ \/ k = Len(a) + 1 /\ Len(b) >= k
           \/ k <= Len(a) /\ k <= Len(b) /\ a[k] < b[k]

\* sorted(seq, key=name): insertion keeps equal keys in their order
RECURSIVE sorted_by_name(_)
sorted_by_name(clips) ==
    IF clips = <<>> THEN <<>>
    ELSE LET front == sorted_by_name(SubSeq(clips, 1, Len(clips) - 1))
             x == clips[Len(clips)]
             before == {i \in 1..Len(front) : ~str_lt(clip_name(x), clip_name(front[i]))}
             k == Cardinality(before)
         IN SubSeq(front, 1, k) \o <<x>> \o SubSeq(front, k + 1, Len(front))

\* the segment indices around the first one that outgrows the padding
RECURSIVE Pow10(_)
Pow10(k) == IF k = 0 THEN 1 ELSE 10 * Pow10(k - 1)

SegmentWindow == (Pow10(PadWidth) - IndexSpan)..(Pow10(PadWidth) + IndexSpan - 1)

\* the clip lists of a session: distinct segments, in any arrival order
ClipLists ==
    {q \in UNION {[1..n -> SegmentWindow] : n \in 1..MaxConcatClips} :
        \A i, j \in 1..Len(q) : q[i] = q[j] => i = j}

(* SessionRecorder.finalize on a non-empty clip list: sort by name, write
   one line per clip *)
Finalize ==
    /\ \E clips \in ClipLists :
           concat' = [clips |-> clips, lines |-> sorted_by_name(clips)]
    /\ UNCHANGED notConcatVars

ConcatNext == Finalize

SpecConcat == Init /\ [][ConcatNext]_vars

(***************************************************************************)
(* SpecBuffer: the rolling buffer directory (buffer.py).  The transcoder   *)
(* writes segments 0, 1, 2, ... and, with -hls_list_size max_segments      *)
(* -hls_flags delete_segments, removes the oldest ones beyond the playlist *)
(* when it gets to it.  The system reads the directory only through        *)
(* get_preroll_clips, at a session start.                                  *)
(***************************************************************************)
\* sorted(clips, key=lambda c: c.index)
RECURSIVE sorted_by_index(_)
sorted_by_index(S) ==
    IF S = {} THEN <<>>
    ELSE LET m == CHOOSE x \in S : \A y \in S : x <= y
         IN <<m>> \o sorted_by_index(S \ {m})

\* _check_buffer_overflow: the files left after it has run on the sorted list
_check_buffer_overflow(files, clips) ==
    LET clip_count == Len(clips)
        threshold == max_segments + SEGMENT_OVERFLOW_MARGIN
        clips_to_remove == clip_count - max_segments
    IN IF clip_count > threshold
       THEN files \ {clips[i] : i \in 1..clips_to_remove}
       ELSE files

\* _check_buffer_overflow: whether it logs the warning, and the
\* _overflow_warned it leaves
overflow_warning_ResetBelowThreshold(warned, clip_count) ==
    LET threshold == max_segments + SEGMENT_OVERFLOW_MARGIN
    IN IF clip_count > threshold
       THEN [emit |-> ~warned, warned |-> TRUE]
       ELSE [emit |-> FALSE, warned |-> FALSE]

overflow_warning(warned, clip_count) ==
    LET threshold == max_segments + SEGMENT_OVERFLOW_MARGIN
    IN IF clip_count > threshold
       THEN [emit |-> ~warned, warned |-> TRUE]
       ELSE IF clip_count <= max_segments
       THEN [emit |-> FALSE, warned |-> FALSE]
       ELSE [emit |-> FALSE, warned |-> warned]

\* get_clips: the sorted list it returns (made before the overflow check)
get_clips(files) == sorted_by_index(files)

\* get_preroll_clips on the list get_clips returned
preroll_of(clips, seconds) ==
    LET pos == get_preroll_clips(Len(clips), seconds, SegmentDuration)
    IN [i \in 1..Len(pos) |-> clips[pos[i]]]

SegmentArrives ==
    /\ next_segment < MaxSegmentIndex
    /\ seg_files' = seg_files \cup {next_segment}
    /\ next_segment' = next_segment + 1
    /\ UNCHANGED <<buf_call, overflow_warned, warnings, quiet_seen>>
    /\ UNCHANGED notBufVars

TranscoderDeletes ==
    /\ Cardinality(seg_files) > max_segments
    /\ seg_files' = seg_files \ {CHOOSE x \in seg_files : \A y \in seg_files : x <= y}
    /\ UNCHANGED <<next_segment, buf_call, overflow_warned, warnings, quiet_seen>>
    /\ UNCHANGED notBufVars

(* PilotSystem._on_session_start: buffer.get_preroll_clips(seconds) *)
GetPrerollClips ==
    /\ \E clips \in {get_clips(seg_files)}, seconds \in 0..MaxSeconds :
           LET w == overflow_warning(overflow_warned, Len(clips))
           IN /\ seg_files' = _check_buffer_overflow(seg_files, clips)
              /\ overflow_warned' = w.warned
              /\ warnings' = IF w.emit THEN warnings + 1 ELSE warnings
              /\ quiet_seen' = IF w.emit THEN FALSE
                               ELSE IF Len(clips) <= max_segments THEN TRUE
                               ELSE quiet_seen
              /\ buf_call' = [op |-> "get_preroll_clips", seconds |-> seconds,
                              before |-> seg_files, ret |-> preroll_of(clips, seconds),
                              warned |-> w.emit]
    /\ UNCHANGED next_segment
    /\ UNCHANGED notBufVars

BufNext ==
    \/ SegmentArrives
    \/ TranscoderDeletes
    \/ GetPrerollClips

SpecBuffer == Init /\ [][BufNext]_vars

(***************************************************************************)
(* SpecStart: HLSBuffer.start and what it clears (buffer.py).  An entry    *)
(* under buffer_dir is [name, kind, top]: name a sequence of characters,   *)
(* kind file or dir, top TRUE for an entry of buffer_dir itself and FALSE  *)
(* for one inside a subdirectory of it.                                    *)
(***************************************************************************)
FileNames ==
    { <<"c","l","i","p","_","1",".","t","s">>,
      <<"c","l","i","p","_",".","t","s">>,
      <<"c","l","i","p","_","1",".","t","s","x">>,
      <<"x","c","l","i","p","_","1",".","t","s">>,
      <<"s","t","r","e","a","m",".","m","3","u","8">>,
      <<"s","t","r","e","a","m",".","m","3","u","8","~">>,
      <<"k","e","e","p",".","t","s">> }

Entries == [name : FileNames, kind : {"file", "dir"}, top : BOOLEAN]

\* the patterns: a literal name, or <prefix>*<suffix>
ClipPattern == [prefix |-> <<"c","l","i","p","_">>, star |-> TRUE, suffix |-> <<".","t","s">>]

PlaylistPattern ==
    [prefix |-> <<"s","t","r","e","a","m",".","m","3","u","8">>, star |-> FALSE, suffix |-> <<>>]

fnmatch_Suffix(name, pat) ==
    /\ Len(name) >= Len(pat.suffix)
    /\ SubSeq(name, Len(name) - Len(pat.suffix) + 1, Len(name)) = pat.suffix

fnmatch(name, pat) ==
    IF pat.star
    THEN /\ Len(name) >= Len(pat.prefix) + Len(pat.suffix)
         /\ SubSeq(name, 1, Len(pat.prefix)) = pat.prefix
         /\ SubSeq(name, Len(name) - Len(pat.suffix) + 1, Len(name)) = pat.suffix
    ELSE name = pat.prefix

\* self.buffer_dir.glob(pattern): entries of buffer_dir itself
glob(dir, pat) == {e \in dir : e.top /\ fnmatch(e.name, pat)}

\* path.unlink() removes a file and raises OSError on a directory
unlink(dir, e) == IF e.kind = "file" THEN dir \ {e} ELSE dir

\* _clear_old_clips: for pattern in ["clip_*.ts", "stream.m3u8"]
_clear_old_clips(dir) ==
    LET found == glob(dir, ClipPattern) \cup glob(dir, PlaylistPattern)
    IN {e \in dir : e \notin found \/ e \in unlink(dir, e)}

(* anything writes an entry under buffer_dir: a prior run, the transcoder,
   another program *)
EntryAppears ==
    /\ Cardinality(buffer_dir) < MaxEntries
    /\ \E e \in Entries :
           /\ \A f \in buffer_dir : f.name = e.name /\ f.top = e.top => f = e
           /\ e \notin buffer_dir
           /\ buffer_dir' = buffer_dir \cup {e}
    /\ UNCHANGED <<transcoder, start_log>>
    /\ UNCHANGED notStartVars

(* HLSBuffer.start: mkdir, _clear_old_clips, then Popen *)
BufferStart ==
    /\ transcoder = "stopped"
    /\ buffer_dir' = _clear_old_clips(buffer_dir)
    /\ start_log' = [cleared |-> Cardinality(buffer_dir \ _clear_old_clips(buffer_dir)),
                     kept |-> Cardinality(_clear_old_clips(buffer_dir))]
    /\ transcoder' = "running"
    /\ UNCHANGED notStartVars

(* HLSBuffer.stop *)
BufferStop ==
    /\ transcoder = "running"
    /\ transcoder' = "stopped"
    /\ UNCHANGED <<buffer_dir, start_log>>
    /\ UNCHANGED notStartVars

StartNext ==
    \/ EntryAppears
    \/ BufferStart
    \/ BufferStop

SpecStart == Init /\ [][StartNext]_vars

(***************************************************************************)
(* SpecCleanup: every deletion of a directory tree (platform.py, main.py,  *)
(* recorder.py) over the configurations of sessions_dir and evidence_dir.  *)
(* A path is the sequence of its components; fs holds real paths, and      *)
(* TheLink is the one symbolic link of the machine.                        *)
(***************************************************************************)
IsPrefix(p, q) == Len(p) <= Len(q) /\ SubSeq(q, 1, Len(p)) = p

TheLink == [from |-> <<"tmp", "link">>, to |-> <<"home", "data">>]

\* Path.resolve()
resolve(p) ==
    IF IsPrefix(TheLink.from, p)
    THEN TheLink.to \o SubSeq(p, Len(TheLink.from) + 1, Len(p))
    ELSE p

\* tempfile.gettempdir() and the RAM disk
SAFE_CLEANUP_PREFIXES == {<<"tmp">>, <<"mnt", "ramdisk">>}

\* the components that contain the substring "device-pilot"
MarkedNames == {"device-pilot", "device-pilot-recordings"}

exists(tree, p) == \E e \in tree : e.path = resolve(p)

is_dir(tree, p) == \E e \in tree : e.path = resolve(p) /\ e.kind = "dir"

is_safe_to_delete(tree, p) ==
    /\ exists(tree, p)
    /\ \E i \in 1..Len(resolve(p)) : resolve(p)[i] \in MarkedNames
    /\ \E safe_prefix \in SAFE_CLEANUP_PREFIXES : IsPrefix(resolve(safe_prefix), resolve(p))

\* shutil.rmtree(p): p and everything below it; it refuses a symbolic link
rmtree(tree, p) ==
    IF p = TheLink.from THEN tree
    ELSE {e \in tree : ~IsPrefix(resolve(p), e.path)}

safe_rmtree(tree, p) == IF is_safe_to_delete(tree, p) THEN rmtree(tree, p) ELSE tree

\* Path.mkdir(parents=True, exist_ok=True)
mkdir(tree, p) ==
    tree \cup {[path |-> SubSeq(resolve(p), 1, n), kind |-> "dir"] : n \in 1..Len(resolve(p))}

write_file(tree, p) == tree \cup {[path |-> resolve(p), kind |-> "file"]}

iterdir(tree, d) ==
    {e.path : e \in {f \in tree : Len(f.path) = Len(resolve(d)) + 1
                                   /\ IsPrefix(resolve(d), f.path)}}

\* what a call changed in the log of deleted trees
Deleted(before, after, roots) == {resolve(r) : r \in {x \in roots : rmtree(before, x) # before
                                                        /\ ~exists(after, x)}}

\* PilotSystem._clear_old_sessions: the items it removes
old_session_items(tree, c) ==
    IF ~exists(tree, c.sessions_dir) THEN {}
    ELSE IF c.sessions_dir = c.evidence_dir THEN {}
    ELSE {item \in iterdir(tree, c.sessions_dir) : is_dir(tree, item)}

RECURSIVE rmtree_all(_, _)
rmtree_all(tree, items) ==
    IF items = {} THEN tree
    ELSE LET item == CHOOSE x \in items : TRUE
         IN rmtree_all(rmtree(tree, item), items \ {item})

RECURSIVE safe_rmtree_all(_, _)
safe_rmtree_all(tree, items) ==
    IF items = {} THEN tree
    ELSE LET item == CHOOSE x \in items : TRUE
         IN safe_rmtree_all(safe_rmtree(tree, item), items \ {item})

_clear_old_sessions(tree, c) == rmtree_all(tree, old_session_items(tree, c))

BufferDir == <<"tmp", "device-pilot", "buffer">>

SessionsDirs ==
    { <<"tmp", "device-pilot", "sessions">>,
      <<"home", "device-pilot", "sessions">>,
      <<"tmp", "link">> }

EvidenceDirs(sd) ==
    { <<"home", "device-pilot-recordings">>, sd, sd \o <<"evidence">>,
      sd \o <<"s1", "out">> }

session_dir(c, id) == c.sessions_dir \o <<id>>

(* PilotConfig and ensure_directories, on a machine where an earlier run
   left a session directory and an evidence file *)
Configure ==
    /\ phase = "off"
    /\ \E sd \in SessionsDirs : \E ed \in EvidenceDirs(sd) :
           /\ cfg' = [sessions_dir |-> sd, evidence_dir |-> ed]
           /\ fs' = write_file(
                        write_file(
                            mkdir(mkdir(mkdir(mkdir({}, BufferDir), sd), ed), sd \o <<"s0">>),
                            sd \o <<"s0", "clip">>),
                        ed \o <<"old.mp4">>)
           /\ evidence' = {resolve(ed \o <<"old.mp4">>)}
    /\ phase' = "configured"
    /\ UNCHANGED <<rec_state, rm_log>>
    /\ UNCHANGED notCleanVars

(* PilotSystem.start: ensure_directories, _clear_old_sessions, a new
   RecorderManager *)
SystemStart ==
    /\ phase \in {"configured", "stopped"}
    /\ LET tree == mkdir(mkdir(mkdir(fs, BufferDir), cfg.sessions_dir), cfg.evidence_dir)
       IN /\ fs' = _clear_old_sessions(tree, cfg)
          /\ rm_log' = rm_log \cup Deleted(tree, _clear_old_sessions(tree, cfg),
                                           old_session_items(tree, cfg))
    /\ rec_state' = [i \in SessionDirIds |-> "none"]
    /\ phase' = "running"
    /\ UNCHANGED <<cfg, evidence>>
    /\ UNCHANGED notCleanVars

(* RecorderManager.start_session with one pre-roll clip *)
StartSession ==
    /\ phase = "running"
    /\ \E id \in SessionDirIds :
           /\ rec_state[id] = "none"
           /\ rec_state' = [rec_state EXCEPT ![id] = "active"]
           /\ fs' = write_file(mkdir(fs, session_dir(cfg, id)), session_dir(cfg, id) \o <<"clip">>)
    /\ UNCHANGED <<phase, cfg, rm_log, evidence>>
    /\ UNCHANGED notCleanVars

(* RecorderManager.finalize_session: on success the output is written and
   recorder.cleanup() runs safe_rmtree(session_dir) *)
FinalizeSession ==
    /\ phase = "running"
    /\ \E id \in SessionDirIds : \E ok \in BOOLEAN :
           /\ rec_state[id] = "active"
           /\ LET out == cfg.evidence_dir \o <<id>>
                  tree == write_file(mkdir(fs, cfg.evidence_dir), out)
              IN IF ok
                 THEN /\ fs' = safe_rmtree(tree, session_dir(cfg, id))
                      /\ rm_log' = rm_log \cup
                             Deleted(tree, safe_rmtree(tree, session_dir(cfg, id)),
                                     {session_dir(cfg, id)})
                      /\ evidence' = evidence \cup {resolve(out)}
                      /\ rec_state' = [rec_state EXCEPT ![id] = "done"]
                 ELSE /\ rec_state' = [rec_state EXCEPT ![id] = "failed"]
                      /\ UNCHANGED <<fs, rm_log, evidence>>
    /\ UNCHANGED <<phase, cfg>>
    /\ UNCHANGED notCleanVars

(* PilotSystem.stop with no active session: RecorderManager.cleanup *)
SystemStop ==
    /\ phase = "running"
    /\ \A id \in SessionDirIds : rec_state[id] # "active"
    /\ LET dirs_left == {session_dir(cfg, id) : id \in {i \in SessionDirIds : rec_state[i] = "failed"}}
       IN /\ fs' = safe_rmtree_all(fs, dirs_left)
          /\ rm_log' = rm_log \cup Deleted(fs, safe_rmtree_all(fs, dirs_left), dirs_left)
    /\ phase' = "stopped"
    /\ UNCHANGED <<cfg, rec_state, evidence>>
    /\ UNCHANGED notCleanVars

(* Platform.cleanup_buffer_directory *)
CleanupBufferDirectory ==
    /\ phase = "stopped"
    /\ exists(fs, BufferDir)
    /\ fs' = safe_rmtree(fs, BufferDir)
    /\ rm_log' = rm_log \cup Deleted(fs, safe_rmtree(fs, BufferDir), {BufferDir})
    /\ UNCHANGED <<phase, cfg, rec_state, evidence>>
    /\ UNCHANGED notCleanVars

CleanNext ==
    \/ Configure
    \/ SystemStart
    \/ StartSession
    \/ FinalizeSession
    \/ SystemStop
    \/ CleanupBufferDirectory

SpecCleanup == Init /\ [][CleanNext]_vars

(***************************************************************************)
(* SpecDetector: the smoothing and hysteresis of Detector.analyze_frame    *)
(* (detector.py).  A raw motion score is an integer in 0..MaxScore and the *)
(* threshold is MotionThreshold in the same unit; SMOOTHING_WINDOW and     *)
(* HYSTERESIS_FRAMES are scaled down from 15 and 30 frames.                *)
(***************************************************************************)
RECURSIVE Sum(_)
Sum(q) == IF q = <<>> THEN 0 ELSE Head(q) + Sum(Tail(q))

\* deque(maxlen=SMOOTHING_WINDOW).append
deque_append(q, x) ==
    IF Len(q) < SMOOTHING_WINDOW THEN Append(q, x) ELSE Append(Tail(q), x)

\* sum(scores) / len(scores) > motion_threshold
above_threshold(scores) == Sum(scores) > MotionThreshold * Len(scores)

\* the detector [scores, state, low] after analyze_frame on a frame whose
\* raw motion score is raw
analyze_frame_KeepsCount(D, raw) ==
    LET scores == deque_append(D.scores, raw)
    IN IF above_threshold(scores)
       THEN [scores |-> scores, state |-> TRUE, low |-> D.low]
       ELSE IF D.state
       THEN [scores |-> scores,
             state |-> ~(D.low + 1 >= HYSTERESIS_FRAMES),
             low |-> D.low + 1]
       ELSE [scores |-> scores, state |-> FALSE, low |-> D.low]

analyze_frame(D, raw) ==
    LET scores == deque_append(D.scores, raw)
    IN IF above_threshold(scores)
       THEN [scores |-> scores, state |-> TRUE, low |-> 0]
       ELSE IF D.state
       THEN [scores |-> scores,
             state |-> ~(D.low + 1 >= HYSTERESIS_FRAMES),
             low |-> D.low + 1]
       ELSE [scores |-> scores, state |-> FALSE, low |-> D.low]

TheDetector == [scores |-> motion_scores, state |-> motion_state, low |-> low_motion_count]

Abs(x) == IF x < 0 THEN 0 - x ELSE x

\* the light detection of analyze_frame on a frame of mean brightness
\* brightness: what it reports and the _last_brightness it leaves
light_detection_OnEventOnly(last, brightness) ==
    LET delta == IF last # None THEN Abs(brightness - last) ELSE 0
    IN [brightness_delta |-> delta,
        light_event_detected |-> delta > LightJumpThreshold,
        last |-> IF last = None \/ delta > LightJumpThreshold THEN brightness ELSE last]

light_detection(last, brightness) ==
    LET delta == IF last # None THEN Abs(brightness - last) ELSE 0
    IN [brightness_delta |-> delta,
        light_event_detected |-> delta > LightJumpThreshold,
        last |-> brightness]

AnalyzeFrame ==
    /\ \E raw \in 0..MaxScore, brightness \in 0..MaxBrightness :
           LET D == analyze_frame(TheDetector, raw)
               above == above_threshold(D.scores)
               L == light_detection(last_brightness, brightness)
           IN /\ motion_scores' = D.scores
              /\ last_brightness' = L.last
              /\ prev_brightness' = brightness
              /\ motion_state' = D.state
              /\ low_motion_count' = D.low
              /\ low_run' = IF above THEN 0
                            ELSE IF low_run < HYSTERESIS_FRAMES THEN low_run + 1
                            ELSE low_run
              /\ det_result' = [op |-> "analyze", motion_detected |-> D.state,
                                above |-> above, brightness |-> brightness,
                                brightness_delta |-> L.brightness_delta,
                                light_event_detected |-> L.light_event_detected,
                                after_light |-> det_result.light_event_detected]
    /\ UNCHANGED notDetVars

(* Detector.reset, after a reconnection of the detection stream *)
DetectorReset ==
    /\ motion_scores' = <<>>
    /\ motion_state' = FALSE
    /\ low_motion_count' = 0
    /\ low_run' = 0
    /\ det_result' = [op |-> "reset", motion_detected |-> FALSE, above |-> FALSE,
                      brightness |-> None, brightness_delta |-> 0,
                      light_event_detected |-> FALSE, after_light |-> FALSE]
    /\ last_brightness' = None
    /\ prev_brightness' = None
    /\ UNCHANGED notDetVars

DetNext ==
    \/ AnalyzeFrame
    \/ DetectorReset

SpecDetector == Init /\ [][DetNext]_vars

(***************************************************************************)
(* SpecStop: PilotSystem.stop() (main.py) and its three callers: the       *)
(* finally block of run(), the signal handler and the at-exit hook.  All   *)
(* run on the main thread; a signal handler runs between two bytecodes of  *)
(* whatever the main thread is executing, stop() itself included, so the   *)
(* calls in progress form a stack.  The watcher threads keep distributing  *)
(* clips for as long as the buffer watcher runs.                           *)
(***************************************************************************)
TopFrame == stop_frames[Len(stop_frames)]
WithTop(f) == [stop_frames EXCEPT ![Len(stop_frames)] = f]
Popped == SubSeq(stop_frames, 1, Len(stop_frames) - 1)
\* a call of stop(); at_call remembers the sessions active at the call
NewFrame == [pc |-> "test", todo |-> {}, at_call |-> pilot_sessions]
At(p) == stop_frames # <<>> /\ TopFrame.pc = p

\* what an outermost stop() leaves unfinalized when it returns
LeftAtReturn ==
    IF Len(stop_frames) = 1
    THEN [stop_seen EXCEPT !.unfinalized =
              {i \in TopFrame.at_call : finalize_calls[i] = 0}]
    ELSE stop_seen

(* run(): session_manager starts a session, _on_session_start *)
PilotSessionStart(id) ==
    /\ main_pc = "loop" /\ stop_frames = <<>> /\ pilot_running
    /\ pilot_locked = {}
    /\ id \notin pilot_sessions
    /\ pilot_sessions' = pilot_sessions \cup {id}
    /\ pilot_recorders' = pilot_recorders \cup {id}
    /\ UNCHANGED <<main_pc, stop_frames, pilot_running, pilot_stopped, finalize_calls,
                   comp, stop_calls, n_signals, stop_seen>>
    /\ UNCHANGED pilot_locked
    /\ UNCHANGED notStopVars

(* run(): session_manager.tick finalizes a session: _finalize_session    *)
(* calls _on_session_finalize, which reaches SessionRecorder.finalize    *)
(* and takes the recorder's lock; the session is still in the active map *)
PilotFinalizeEnters(id) ==
    /\ main_pc = "loop" /\ stop_frames = <<>> /\ pilot_running
    /\ pilot_locked = {}
    /\ id \in pilot_sessions /\ id \in pilot_recorders
    /\ pilot_locked' = {id}
    /\ UNCHANGED <<main_pc, stop_frames, pilot_running, pilot_stopped, pilot_sessions,
                   pilot_recorders, finalize_calls, comp, stop_calls, n_signals, stop_seen>>
    /\ UNCHANGED notStopVars

(* SessionRecorder.finalize returns and releases the lock, the recorder  *)
(* is unregistered when there is an output, and _finalize_session moves  *)
(* the session to the completed list                                     *)
PilotSessionFinalize(id) ==
    /\ main_pc = "loop" /\ stop_frames = <<>>
    /\ pilot_locked = {id}
    /\ pilot_locked' = {}
    /\ pilot_sessions' = pilot_sessions \ {id}
    /\ \E ok \in BOOLEAN :
           pilot_recorders' = IF ok THEN pilot_recorders \ {id} ELSE pilot_recorders
    /\ UNCHANGED <<main_pc, stop_frames, pilot_running, pilot_stopped, finalize_calls,
                   comp, stop_calls, n_signals, stop_seen>>
    /\ UNCHANGED notStopVars

(* a watcher thread hands a new clip to the recorders *)
ClipDistributed ==
    /\ comp.watcher /\ pilot_recorders # {}
    /\ stop_seen' = [stop_seen EXCEPT !.clip_in_stop = @ \/ pilot_stopped]
    /\ UNCHANGED <<main_pc, stop_frames, pilot_running, pilot_stopped, pilot_sessions,
                   pilot_recorders, finalize_calls, comp, stop_calls, n_signals>>
    /\ UNCHANGED pilot_locked
    /\ UNCHANGED notStopVars

(* run(): a read failed for the tenth time: _restart_buffer calls        *)
(* buffer.stop() and sleeps two seconds                                  *)
RestartStopsBuffer ==
    /\ main_pc = "loop" /\ stop_frames = <<>> /\ pilot_running
    /\ pilot_locked = {}
    /\ comp' = [comp EXCEPT !.ffmpeg = FALSE]
    /\ main_pc' = "restart_gap"
    /\ UNCHANGED <<stop_frames, pilot_running, pilot_stopped, pilot_sessions,
                   pilot_recorders, finalize_calls, stop_calls, n_signals, stop_seen,
                   pilot_locked>>
    /\ UNCHANGED notStopVars

(* _restart_buffer: buffer.start() launches a transcoder *)
RestartStartsBuffer ==
    /\ main_pc = "restart_gap" /\ stop_frames = <<>>
    /\ comp' = [comp EXCEPT !.ffmpeg = TRUE]
    /\ main_pc' = "loop"
    /\ UNCHANGED <<stop_frames, pilot_running, pilot_stopped, pilot_sessions,
                   pilot_recorders, finalize_calls, stop_calls, n_signals, stop_seen,
                   pilot_locked>>
    /\ UNCHANGED notStopVars

(* _reconnect_capture: the sleep is over and `if not self._running` has  *)
(* found _running true                                                   *)
ReconnectPassesCheck ==
    /\ main_pc = "loop" /\ stop_frames = <<>> /\ pilot_running
    /\ pilot_locked = {}
    /\ main_pc' = "reconnect_gap"
    /\ UNCHANGED <<stop_frames, pilot_running, pilot_stopped, pilot_sessions,
                   pilot_recorders, finalize_calls, comp, stop_calls, n_signals,
                   stop_seen, pilot_locked>>
    /\ UNCHANGED notStopVars

(* _reconnect_capture: capture.release(); capture.open(), which succeeds *)
(* or not                                                                *)
ReconnectOpens ==
    /\ main_pc = "reconnect_gap" /\ stop_frames = <<>>
    /\ \E opened \in BOOLEAN : comp' = [comp EXCEPT !.capture = opened]
    /\ main_pc' = "loop"
    /\ UNCHANGED <<stop_frames, pilot_running, pilot_stopped, pilot_sessions,
                   pilot_recorders, finalize_calls, stop_calls, n_signals, stop_seen,
                   pilot_locked>>
    /\ UNCHANGED notStopVars

(* run() leaves its loop once _running is false: the finally block calls *)
(* stop()                                                                *)
RunLoopExits ==
    /\ main_pc = "loop" /\ stop_frames = <<>> /\ ~pilot_running
    /\ pilot_locked = {}
    /\ main_pc' = "finally"
    /\ stop_frames' = <<NewFrame>>
    /\ UNCHANGED <<pilot_running, pilot_stopped, pilot_sessions, pilot_recorders,
                   finalize_calls, comp, stop_calls, n_signals, stop_seen>>
    /\ UNCHANGED pilot_locked
    /\ UNCHANGED notStopVars

(* _signal_handler: _running = False, then stop() *)
SignalHandler ==
    /\ main_pc \in {"loop", "restart_gap", "reconnect_gap", "finally", "atexit"}
    /\ n_signals < MaxSignals
    /\ n_signals' = n_signals + 1
    /\ pilot_running' = FALSE
    /\ stop_frames' = Append(stop_frames, NewFrame)
    /\ UNCHANGED <<main_pc, pilot_stopped, pilot_sessions, pilot_recorders,
                   finalize_calls, comp, stop_calls, stop_seen>>
    /\ UNCHANGED pilot_locked
    /\ UNCHANGED notStopVars

(* stop(): if self._stopped: return *)
StopTestsLatch ==
    /\ At("test")
    /\ IF pilot_stopped
       THEN /\ stop_frames' = Popped
            /\ stop_seen' = LeftAtReturn
       ELSE /\ stop_frames' = WithTop([TopFrame EXCEPT !.pc = "set"])
            /\ UNCHANGED stop_seen
    /\ UNCHANGED <<main_pc, pilot_running, pilot_stopped, pilot_sessions, pilot_recorders,
                   finalize_calls, comp, stop_calls, n_signals>>
    /\ UNCHANGED pilot_locked
    /\ UNCHANGED notStopVars

(* stop(): self._stopped = True; self._running = False; the list of the *)
(* active sessions is taken                                             *)
StopSetsLatch ==
    /\ At("set")
    /\ pilot_stopped' = TRUE
    /\ pilot_running' = FALSE
    /\ stop_frames' = WithTop([TopFrame EXCEPT !.pc = "finalize", !.todo = pilot_sessions])
    /\ UNCHANGED <<main_pc, pilot_sessions, pilot_recorders, finalize_calls, comp,
                   stop_calls, n_signals, stop_seen>>
    /\ UNCHANGED pilot_locked
    /\ UNCHANGED notStopVars

\* where the main thread is after an exception has left every stop() in
\* progress: the loop's except clause catches it, run() ends with it, or
\* the at-exit machinery reports it
AfterException ==
    IF main_pc = "finally" THEN "exited"
    ELSE IF main_pc = "atexit" THEN "done"
    ELSE "loop"

(* stop(): self._on_session_finalize(session) for the next session, whose *)
(* recorder's lock is free (or which has no recorder)                     *)
StopFinalizesSession ==
    /\ At("finalize") /\ TopFrame.todo # {}
    /\ \E id \in TopFrame.todo, outcome \in {"ok", "fail", "raise"} :
           /\ ~(id \in pilot_recorders /\ id \in pilot_locked)
           /\ id \notin pilot_recorders => outcome = "fail"
           /\ finalize_calls' = [finalize_calls EXCEPT ![id] = @ + 1]
           /\ pilot_recorders' = IF outcome = "ok" THEN pilot_recorders \ {id}
                                 ELSE pilot_recorders
           /\ IF outcome = "raise"
              THEN /\ stop_frames' = <<>>
                   /\ main_pc' = AfterException
                   /\ pilot_locked' = {}
              ELSE /\ stop_frames' = WithTop([TopFrame EXCEPT !.todo = @ \ {id}])
                   /\ UNCHANGED <<main_pc, pilot_locked>>
    /\ UNCHANGED <<pilot_running, pilot_stopped, pilot_sessions, comp, stop_calls,
                   n_signals, stop_seen>>
    /\ UNCHANGED notStopVars

(* stop(): self._on_session_finalize(session) for a session whose        *)
(* recorder's lock is held by the frame of SessionRecorder.finalize that *)
(* the signal interrupted: threading.Lock is not reentrant, acquire()    *)
(* waits, and the frame that holds the lock resumes only when the        *)
(* handler returns                                                       *)
StopWaitsForLock ==
    /\ At("finalize")
    /\ \E id \in TopFrame.todo :
           /\ id \in pilot_recorders /\ id \in pilot_locked
           /\ finalize_calls' = [finalize_calls EXCEPT ![id] = @ + 1]
    /\ stop_frames' = WithTop([TopFrame EXCEPT !.pc = "acquire"])
    /\ UNCHANGED <<main_pc, pilot_running, pilot_stopped, pilot_sessions, pilot_recorders,
                   comp, stop_calls, n_signals, stop_seen, pilot_locked>>
    /\ UNCHANGED notStopVars

(* stop(): recorder_manager.cleanup(): stop_buffer_watcher, then every *)
(* recorder's cleanup, then recorders.clear()                          *)
StopCleansUp ==
    /\ At("finalize") /\ TopFrame.todo = {}
    /\ comp' = [comp EXCEPT !.watcher = FALSE]
    /\ pilot_recorders' = {}
    /\ stop_calls' = [stop_calls EXCEPT !.cleanup = @ + 1,
                          !.watcher_stopped = IF comp.watcher THEN @ + 1 ELSE @]
    /\ stop_frames' = WithTop([TopFrame EXCEPT !.pc = "release"])
    /\ UNCHANGED <<main_pc, pilot_running, pilot_stopped, pilot_sessions, finalize_calls,
                   n_signals, stop_seen>>
    /\ UNCHANGED pilot_locked
    /\ UNCHANGED notStopVars

(* stop(): capture.release() *)
StopReleasesCapture ==
    /\ At("release")
    /\ comp' = [comp EXCEPT !.capture = FALSE]
    /\ stop_calls' = [stop_calls EXCEPT !.release = @ + 1]
    /\ stop_frames' = WithTop([TopFrame EXCEPT !.pc = "buffer"])
    /\ UNCHANGED <<main_pc, pilot_running, pilot_stopped, pilot_sessions, pilot_recorders,
                   finalize_calls, n_signals, stop_seen>>
    /\ UNCHANGED pilot_locked
    /\ UNCHANGED notStopVars

(* stop(): buffer.stop(), which terminates the transcoder if it still runs *)
StopStopsBuffer ==
    /\ At("buffer")
    /\ comp' = [comp EXCEPT !.ffmpeg = FALSE]
    /\ stop_calls' = [stop_calls EXCEPT !.buffer_stop = @ + 1,
                          !.ffmpeg_terminated = IF comp.ffmpeg THEN @ + 1 ELSE @]
    /\ stop_frames' = WithTop([TopFrame EXCEPT !.pc = "return"])
    /\ UNCHANGED <<main_pc, pilot_running, pilot_stopped, pilot_sessions, pilot_recorders,
                   finalize_calls, n_signals, stop_seen>>
    /\ UNCHANGED pilot_locked
    /\ UNCHANGED notStopVars

(* stop() returns *)
StopReturns ==
    /\ At("return")
    /\ stop_frames' = Popped
    /\ stop_seen' = LeftAtReturn
    /\ UNCHANGED <<main_pc, pilot_running, pilot_stopped, pilot_sessions, pilot_recorders,
                   finalize_calls, comp, stop_calls, n_signals>>
    /\ UNCHANGED pilot_locked
    /\ UNCHANGED notStopVars

(* run() returns after its finally block *)
RunReturns ==
    /\ main_pc = "finally" /\ stop_frames = <<>>
    /\ main_pc' = "exited"
    /\ UNCHANGED <<stop_frames, pilot_running, pilot_stopped, pilot_sessions,
                   pilot_recorders, finalize_calls, comp, stop_calls, n_signals, stop_seen>>
    /\ UNCHANGED pilot_locked
    /\ UNCHANGED notStopVars

(* _atexit_cleanup: _pilot_instance.stop() *)
AtExitCleanup ==
    /\ main_pc = "exited"
    /\ main_pc' = "atexit"
    /\ stop_frames' = <<NewFrame>>
    /\ UNCHANGED <<pilot_running, pilot_stopped, pilot_sessions, pilot_recorders,
                   finalize_calls, comp, stop_calls, n_signals, stop_seen>>
    /\ UNCHANGED pilot_locked
    /\ UNCHANGED notStopVars

AtExitReturns ==
    /\ main_pc = "atexit" /\ stop_frames = <<>>
    /\ main_pc' = "done"
    /\ UNCHANGED <<stop_frames, pilot_running, pilot_stopped, pilot_sessions,
                   pilot_recorders, finalize_calls, comp, stop_calls, n_signals, stop_seen>>
    /\ UNCHANGED pilot_locked
    /\ UNCHANGED notStopVars

StopNext ==
    \/ \E id \in SessionDirIds : PilotSessionStart(id)
    \/ \E id \in SessionDirIds : PilotFinalizeEnters(id)
    \/ \E id \in SessionDirIds : PilotSessionFinalize(id)
    \/ ClipDistributed
    \/ RestartStopsBuffer
    \/ RestartStartsBuffer
    \/ ReconnectPassesCheck
    \/ ReconnectOpens
    \/ RunLoopExits
    \/ SignalHandler
    \/ StopTestsLatch
    \/ StopSetsLatch
    \/ StopFinalizesSession
    \/ StopWaitsForLock
    \/ StopCleansUp
    \/ StopReleasesCapture
    \/ StopStopsBuffer
    \/ StopReturns
    \/ RunReturns
    \/ AtExitCleanup
    \/ AtExitReturns

SpecStop == Init /\ [][StopNext]_vars


(***************************************************************************)
(* SpecIds: sessions whose ids may repeat (Session.id is the first eight   *)
(* characters of a uuid4), one session at a time, on the RecorderManager   *)
(* (recorder.py).  The steps are sequential: the transcoder begins a       *)
(* segment, closes it and the segment is handed to the registered          *)
(* recorders, the buffer is restarted, a session starts, the active        *)
(* session is finalized.  safe_dir says whether the session directories    *)
(* pass is_safe_to_delete.  offered is the history of the clips the        *)
(* recorder was given while its session was active; due is the history of  *)
(* the segments <<restarts, name>> closed while it was registered, copied  *)
(* the segments a copy was made of.                                        *)
(***************************************************************************)
\* SessionRecorder.add_clip of clip c on recorder record r whose directory
\* holds files: the recorder and the files afterwards
recorder_add_clip(r, files, c) ==
    IF c \notin files
    THEN [rec |-> [r EXCEPT !.clips = Append(@, c)], files |-> files \cup {c}]
    ELSE [rec |-> r, files |-> files]

RECURSIVE add_clips(_, _, _)
add_clips(r, files, cs) ==
    IF cs = <<>> THEN [rec |-> r, files |-> files]
    ELSE LET a == recorder_add_clip(r, files, Head(cs))
         IN add_clips(a.rec, a.files, Tail(cs))

(* the transcoder begins segment id_segments + 1: the file exists and grows *)
IdSegmentOpens ==
    /\ ~id_open /\ id_segments < MaxClips
    /\ id_open' = TRUE
    /\ UNCHANGED <<id_recs, id_registry, id_dirs, id_active, id_segments, id_gen,
                   id_seen, id_partial>>
    /\ UNCHANGED notIdVars

(* the transcoder closes the segment; the watcher calls _on_new_clip:     *)
(* a name in _seen_clips is dropped, any other is added to it and handed  *)
(* to the registered recorders (add_clip_to_sessions)                     *)
IdSegmentCloses ==
    /\ id_open
    /\ id_open' = FALSE
    /\ id_segments' = id_segments + 1
    /\ LET c == id_segments + 1
           reg == {id_registry[i] : i \in Ids} \ {0}
           due(k) == [id_recs[k] EXCEPT !.due = @ \cup {<<id_gen, c>>}]
           offer(k) == IF k = id_active THEN [due(k) EXCEPT !.offered = @ \cup {c}]
                       ELSE due(k)
           given(k) == LET files == id_dirs[id_recs[k].session_id].files
                           r == recorder_add_clip(offer(k), files, c).rec
                       IN IF c \notin files
                          THEN [r EXCEPT !.copied = @ \cup {<<id_gen, c>>}]
                          ELSE r
       IN IF c \in id_seen
          THEN /\ id_recs' = [k \in 1..Len(id_recs) |->
                                IF k \in reg THEN due(k) ELSE id_recs[k]]
               /\ UNCHANGED <<id_dirs, id_seen>>
          ELSE /\ id_seen' = id_seen \cup {c}
               /\ id_recs' = [k \in 1..Len(id_recs) |->
                                IF k \in reg THEN given(k) ELSE id_recs[k]]
               /\ id_dirs' = [i \in Ids |->
                                IF id_registry[i] # 0 /\ id_dirs[i].exists
                                THEN [id_dirs[i] EXCEPT !.files = @ \cup {c}]
                                ELSE id_dirs[i]]
    /\ UNCHANGED <<id_registry, id_active, id_gen, id_partial>>
    /\ UNCHANGED notIdVars

(* _restart_buffer while the watcher keeps running: HLSBuffer.stop ends   *)
(* the transcoder, HLSBuffer.start clears the buffer directory and the    *)
(* new transcoder numbers its segments from the first name again          *)
IdBufferRestart ==
    /\ id_gen < MaxRestarts
    /\ id_gen' = id_gen + 1
    /\ id_segments' = 0
    /\ id_open' = FALSE
    /\ UNCHANGED <<id_recs, id_registry, id_dirs, id_active, id_seen, id_partial>>
    /\ UNCHANGED notIdVars

(* PilotSystem._on_session_start: get_preroll_clips over the files of the *)
(* buffer directory, the one being written included, then                 *)
(* RecorderManager.start_session(session_id, preroll_clips)               *)
IdSessionStart(id) ==
    /\ id_active = 0 /\ Len(id_recs) < MaxRecorders
    /\ LET n == id_segments + (IF id_open THEN 1 ELSE 0)
           preroll == get_preroll_clips(n, PreRollSeconds, SegmentDuration)
           old == id_dirs[id].files
           new == Range(preroll) \ old
           fresh == [session_id |-> id, clips |-> <<>>, offered |-> Range(preroll),
                     state |-> "active", output |-> <<>>,
                     due |-> {}, copied |-> {<<id_gen, c>> : c \in new}]
           a == add_clips(fresh, old, preroll)
       IN /\ id_recs' = Append(id_recs, a.rec)
          /\ id_dirs' = [id_dirs EXCEPT ![id] = [exists |-> TRUE, files |-> a.files]]
          /\ id_partial' = [id_partial EXCEPT ![id] =
                               @ \cup {<<id_gen, c>> : c \in {x \in new : id_open /\ x = n}}]
          /\ id_registry' = [id_registry EXCEPT ![id] = Len(id_recs) + 1]
          /\ id_active' = Len(id_recs) + 1
    /\ UNCHANGED <<id_segments, id_open, id_gen, id_seen>>
    /\ UNCHANGED notIdVars

(* RecorderManager.finalize_session(session_id) for the active session *)
IdSessionFinalize ==
    /\ id_active # 0
    /\ LET id == id_recs[id_active].session_id
           r == id_registry[id]
       IN \E ok \in BOOLEAN :
            /\ id_recs[r].clips = <<>> => ~ok
            /\ IF ok
               THEN /\ id_recs' = [id_recs EXCEPT ![r].state = "saved",
                                                  ![r].output = id_recs[r].clips]
                    /\ id_dirs' = IF safe_dir
                                  THEN [id_dirs EXCEPT ![id] = [exists |-> FALSE, files |-> {}]]
                                  ELSE id_dirs
                    /\ id_partial' = IF safe_dir
                                     THEN [id_partial EXCEPT ![id] = {}]
                                     ELSE id_partial
                    /\ id_registry' = [id_registry EXCEPT ![id] = 0]
               ELSE /\ id_recs' = [id_recs EXCEPT ![r].state = "failed"]
                    /\ UNCHANGED <<id_dirs, id_registry, id_partial>>
    /\ id_active' = 0
    /\ UNCHANGED <<id_segments, id_open, id_gen, id_seen>>
    /\ UNCHANGED notIdVars

IdsNext ==
    \/ IdSegmentOpens
    \/ IdSegmentCloses
    \/ IdBufferRestart
    \/ \E id \in Ids : IdSessionStart(id)
    \/ IdSessionFinalize

SpecIds == Init /\ [][IdsNext]_vars


(***************************************************************************)
(* SpecLoop: the detection loop of PilotSystem.run() (main.py), one        *)
(* iteration per step.  Times are whole seconds since run() began.  The    *)
(* config object is a PilotConfig as config.py defines it, which has no    *)
(* startup_delay_seconds and no min_motion_seconds attribute, or a config  *)
(* object on which the caller has set them.  The decoder's read and the    *)
(* detector's result are inputs of each iteration.                         *)
(***************************************************************************)
\* the PilotConfig of config.py
PilotConfig == [startup_delay_seconds |-> None, min_motion_seconds |-> None]

LoopConfigs ==
    {PilotConfig} \cup
    {[startup_delay_seconds |-> s, min_motion_seconds |-> m] :
         s \in 0..MaxStartupDelay, m \in {None} \cup 0..MaxMinMotion}

Iteration(kind, ret, motion, light, forwarded, ticked) ==
    [kind |-> kind, at |-> loop_time, ret |-> ret, motion |-> motion, light |-> light,
     forwarded |-> forwarded, ticked |-> ticked]

(* PilotSystem(config).run() begins: start() has succeeded *)
RunBegins ==
    /\ loop_last.kind = "new"
    /\ \E c \in LoopConfigs : loop_cfg' = c
    /\ loop_last' = [loop_last EXCEPT !.kind = "started"]
    /\ UNCHANGED <<loop_time, detection_enabled, motion_start_time, loop_motion_state,
                   last_tick>>
    /\ UNCHANGED notLoopVars

\* the iteration raises AttributeError on a missing config attribute: the
\* catch-all clause logs it and sleeps one second
ErrorPause ==
    /\ loop_time + 1 <= MaxLoopTime
    /\ loop_time' = loop_time + 1
    /\ loop_last' = Iteration("error", FALSE, FALSE, FALSE, "none", FALSE)

\* the time the next iteration starts at
Advance == \E dt \in 0..1 : loop_time + dt <= MaxLoopTime /\ loop_time' = loop_time + dt

(* an iteration that stops at the startup delay *)
WarmUpIteration ==
    /\ loop_last.kind # "new" /\ ~detection_enabled
    /\ IF loop_cfg.startup_delay_seconds = None
       THEN ErrorPause
       ELSE /\ loop_time < loop_cfg.startup_delay_seconds
            /\ \E ret \in BOOLEAN :
                   loop_last' = Iteration("warmup", ret, FALSE, FALSE, "none", FALSE)
            /\ Advance
    /\ UNCHANGED <<loop_cfg, detection_enabled, motion_start_time, loop_motion_state,
                   last_tick>>
    /\ UNCHANGED notLoopVars

\* detection is enabled at the start of this iteration or becomes so in it
Enabled_now ==
    \/ detection_enabled
    \/ /\ loop_cfg.startup_delay_seconds # None
       /\ loop_time >= loop_cfg.startup_delay_seconds

(* an iteration whose capture.read() fails: _reconnect_capture, continue *)
FailedReadIteration ==
    /\ loop_last.kind # "new" /\ Enabled_now
    /\ detection_enabled' = TRUE
    /\ loop_last' = Iteration("read_failed", FALSE, FALSE, FALSE, "none", FALSE)
    /\ Advance
    /\ UNCHANGED <<loop_cfg, motion_start_time, loop_motion_state, last_tick>>
    /\ UNCHANGED notLoopVars

\* the tick at the end of an iteration
LoopTick(ticked) ==
    /\ ticked = (loop_time - last_tick >= 1)
    /\ last_tick' = IF ticked THEN loop_time ELSE last_tick

(* an iteration that reads a frame and analyzes it *)
FrameIteration ==
    /\ loop_last.kind # "new" /\ Enabled_now
    /\ detection_enabled' = TRUE
    /\ \E motion \in BOOLEAN, light \in BOOLEAN, ticked \in BOOLEAN :
         IF motion \/ light
         THEN LET started == IF motion_start_time = None THEN loop_time
                             ELSE motion_start_time
                  motion_duration == loop_time - started
              IN /\ motion_start_time' = started
                 /\ IF loop_cfg.min_motion_seconds = None
                    THEN /\ ErrorPause
                         /\ UNCHANGED <<loop_motion_state, last_tick>>
                    ELSE /\ IF motion_duration >= loop_cfg.min_motion_seconds
                            THEN /\ loop_motion_state' = TRUE
                                 /\ loop_last' = Iteration("analyzed", TRUE, motion, light,
                                                           "on_motion_detected", ticked)
                            ELSE /\ UNCHANGED loop_motion_state
                                 /\ loop_last' = Iteration("analyzed", TRUE, motion, light,
                                                           "none", ticked)
                         /\ LoopTick(ticked)
                         /\ Advance
         ELSE /\ motion_start_time' = None
              /\ loop_motion_state' = FALSE
              /\ loop_last' = Iteration("analyzed", TRUE, FALSE, FALSE, "on_no_motion", ticked)
              /\ LoopTick(ticked)
              /\ Advance
    /\ UNCHANGED loop_cfg
    /\ UNCHANGED notLoopVars

LoopNext ==
    \/ RunBegins
    \/ WarmUpIteration
    \/ FailedReadIteration
    \/ FrameIteration

SpecLoop == Init /\ [][LoopNext]_vars


(***************************************************************************)
(* SpecReconnect: the disconnection path of run() and _reconnect_capture   *)
(* (main.py).  Times are whole seconds, counted from the last frame read   *)
(* (the code uses differences of times only).  OutageSeconds is scaled     *)
(* down from the 120 s of the code.  Whether capture.read() and            *)
(* capture.open() succeed is an input of each step.  A restart of the      *)
(* buffer takes RestartSeconds (the two sleeps of two seconds in           *)
(* _restart_buffer and HLSBuffer.start).                                   *)
(***************************************************************************)
\* the values of config.max_reconnect_delay: absent from the config, a cap
\* below the first delay of one second, and two caps above it
ReconnectDelays == {None, 0, SmallReconnectDelay, MaxReconnectDelay}

\* time.sleep(2) in _restart_buffer and time.sleep(2) in HLSBuffer.start
RestartSeconds == 2 + 2

Min(a, b) == IF a <= b THEN a ELSE b

\* delay = min(delay * 2, max_delay)
backoff(d, max_delay) == Min(d * 2, max_delay)

NoAttempt == [k |-> 0, wait |-> 0, returned |-> FALSE, reset |-> FALSE]

NoEpisode == [active |-> FALSE, start |-> 0, opened |-> FALSE,
              overdue |-> FALSE, restarts |-> 0, failure_restarts |-> 0]

\* the episode after a failure (of a read or of an open) at time t
Failure(e, t) ==
    LET a == IF e.active THEN e ELSE [NoEpisode EXCEPT !.active = TRUE, !.start = t]
    IN [a EXCEPT !.overdue = @ \/ (~a.opened /\ t - a.start > OutageSeconds)]

(* run() enters its loop with detection enabled *)
ReconnectBegins ==
    /\ rc_pc = "new"
    /\ \E d \in ReconnectDelays : max_reconnect_delay' = d
    /\ rc_pc' = "reading"
    /\ UNCHANGED <<rc_time, delay, disconnect_start, buffer_restarted,
                   consecutive_failures, attempt, episode>>
    /\ UNCHANGED notReconVars

(* run(): capture.read() returns a frame *)
ReadSucceeds ==
    /\ rc_pc = "reading"
    /\ rc_time' = 0
    /\ consecutive_failures' = 0
    /\ episode' = NoEpisode
    /\ UNCHANGED <<rc_pc, max_reconnect_delay, delay, disconnect_start, buffer_restarted,
                   attempt>>
    /\ UNCHANGED notReconVars

(* run(): capture.read() fails: the failure counter, the restart after   *)
(* max_consecutive_failures, then the call of _reconnect_capture up to   *)
(* its loop; without config.max_reconnect_delay the call raises and the  *)
(* catch-all clause of run() sleeps one second                           *)
ReadFails ==
    /\ rc_pc = "reading"
    /\ LET many == consecutive_failures + 1 >= max_consecutive_failures
           t == IF many THEN rc_time + RestartSeconds ELSE rc_time
           e == Failure(episode, rc_time)
       IN /\ consecutive_failures' = IF many THEN 0 ELSE consecutive_failures + 1
          /\ IF max_reconnect_delay = None
             THEN /\ t + 1 <= MaxReconnectTime
                  /\ rc_time' = t + 1
                  /\ episode' = [e EXCEPT !.failure_restarts = IF many THEN @ + 1 ELSE @]
                  /\ UNCHANGED <<rc_pc, delay, disconnect_start, buffer_restarted,
                                 attempt>>
             ELSE /\ t <= MaxReconnectTime
                  /\ rc_time' = t
                  /\ delay' = 1
                  /\ disconnect_start' = t
                  /\ buffer_restarted' = FALSE
                  /\ attempt' = NoAttempt
                  /\ rc_pc' = "reconnect"
                  /\ episode' = [e EXCEPT !.failure_restarts = IF many THEN @ + 1 ELSE @]
    /\ UNCHANGED max_reconnect_delay
    /\ UNCHANGED notReconVars

(* _reconnect_capture: one round of its loop: sleep(delay), release and  *)
(* open; on success reset the detector and return True; on failure the   *)
(* extended-outage rule and the backoff                                  *)
ReconnectAttempt ==
    /\ rc_pc = "reconnect"
    /\ rc_time + delay <= MaxReconnectTime
    /\ attempt.k < MaxAttempts
    /\ \E opened \in BOOLEAN :
         LET t == rc_time + delay
         IN IF opened
            THEN /\ rc_time' = t
                 /\ rc_pc' = "reading"
                 /\ episode' = [episode EXCEPT !.opened = TRUE]
                 /\ attempt' = [k |-> attempt.k + 1, wait |-> delay,
                                returned |-> TRUE, reset |-> TRUE]
                 /\ UNCHANGED <<delay, buffer_restarted>>
            ELSE LET disconnect_duration == t - disconnect_start
                     restart == disconnect_duration > OutageSeconds /\ ~buffer_restarted
                 IN /\ (restart => t + RestartSeconds <= MaxReconnectTime)
                    /\ rc_time' = IF restart THEN t + RestartSeconds ELSE t
                    /\ buffer_restarted' = (buffer_restarted \/ restart)
                    /\ episode' = [Failure(episode, t) EXCEPT
                                       !.restarts = IF restart THEN @ + 1 ELSE @]
                    /\ attempt' = [attempt EXCEPT !.k = @ + 1, !.wait = delay]
                    /\ delay' = backoff(delay, max_reconnect_delay)
                    /\ UNCHANGED rc_pc
    /\ UNCHANGED <<max_reconnect_delay, disconnect_start, consecutive_failures>>
    /\ UNCHANGED notReconVars

(* a shutdown signal: _running is False, the loops end *)
ReconnectStops ==
    /\ rc_pc \in {"reading", "reconnect"}
    /\ rc_pc' = "stopped"
    /\ UNCHANGED <<rc_time, max_reconnect_delay, delay, disconnect_start, buffer_restarted,
                   consecutive_failures, attempt, episode>>
    /\ UNCHANGED notReconVars

ReconnectNext ==
    \/ ReconnectBegins
    \/ ReadSucceeds
    \/ ReadFails
    \/ ReconnectAttempt
    \/ ReconnectStops

SpecReconnect == Init /\ [][ReconnectNext]_vars


(***************************************************************************)
(* Properties of SessionManager (SpecManager)                              *)
(***************************************************************************)
ActiveObjs == Range(dict_values(active_sessions))

ActiveObjsAfter == Range(dict_values(active_sessions'))

IsCall(op) == call'.op = op /\ call'.n # call.n

\* C1: on_motion_detected(now) creates a session and fires on_session_start
\* iff no session is RECORDING or COOLDOWN before the call; otherwise it
\* creates nothing, fires nothing, and every active session ends the call in
\* RECORDING with cooldown_start_time cleared and last_activity_time = now.
C1_MotionStartsIffNoLiveSession ==
    [][IsCall("motion") =>
        LET live == \E o \in ActiveObjs : heap[o].state \in {RECORDING, COOLDOWN}
        IN IF ~live
           THEN Len(heap') = Len(heap) + 1 /\ n_start' = n_start + 1
           ELSE /\ Len(heap') = Len(heap)
                /\ n_start' = n_start
                /\ \A o \in ActiveObjsAfter :
                       /\ heap'[o].state = RECORDING
                       /\ heap'[o].cooldown_start_time = None
                       /\ heap'[o].last_activity_time = call'.now]_vars

FinalTick == IsCall("tick") /\ call'.now >= clock + CooldownSeconds

\* C2 as stated: after a final tick(now_large), now_large at least
\* cooldown_seconds after every earlier time, the number of on_session_start
\* invocations equals the number of on_session_finalize invocations.
C2_StartsEqualFinalizes ==
    [][FinalTick => n_start' = n_finalize']_vars

\* C2 amended: after such a final tick the starts exceed the finalizes exactly
\* by the sessions still in RECORDING (tick finalizes only COOLDOWN sessions);
\* the counts are equal when no session is RECORDING at the final tick.
C2_StartsEqualFinalizesPlusRecording ==
    [][FinalTick =>
        n_start' = n_finalize'
                   + Cardinality({o \in ActiveObjsAfter : heap'[o].state = RECORDING})]_vars

C2_Witness ==
    /\ call.op = "tick" /\ call.now >= call.prev + CooldownSeconds
    /\ cb_log # <<>>
    /\ n_start >= 2 /\ n_finalize = n_start

\* C3: every COMPLETED session appears exactly once in completed_sessions and
\* not in active_sessions.
C3_CompletedOnceAndInactive ==
    \A o \in 1..Len(heap) :
        heap[o].state = COMPLETED =>
            /\ Cardinality({i \in 1..Len(completed_sessions) : completed_sessions[i] = o}) = 1
            /\ o \notin ActiveObjs

C3_Witness ==
    /\ Len(completed_sessions) >= 2
    /\ \A i \in 1..Len(completed_sessions) : heap[completed_sessions[i]].state = COMPLETED
    /\ active_sessions # <<>>

\* C4: tick(now) finalizes exactly the active sessions in COOLDOWN with
\* now - cooldown_start_time >= cooldown_seconds and leaves every other session
\* unchanged; on_session_finalize fires exactly once per finalized session, in
\* FINALIZING; when tick returns the session is COMPLETED, out of the active
\* map and appended to the completed list.
C4_TickFinalizesExactlyExpired ==
    [][IsCall("tick") =>
        LET now == call'.now
            F == {o \in ActiveObjs :
                    /\ heap[o].state = COOLDOWN
                    /\ now - heap[o].cooldown_start_time >= CooldownSeconds}
            fired(o) == {i \in 1..Len(cb_log') :
                           cb_log'[i].cb = "finalize" /\ cb_log'[i].obj = o}
        IN /\ Len(heap') = Len(heap)
           /\ \A o \in (1..Len(heap)) \ F :
                  /\ heap'[o] = heap[o]
                  /\ (o \in ActiveObjsAfter) = (o \in ActiveObjs)
                  /\ fired(o) = {}
           /\ \A o \in F :
                  /\ Cardinality(fired(o)) = 1
                  /\ \A i \in fired(o) : cb_log'[i].state = FINALIZING
           /\ \A i \in 1..Len(cb_log') : cb_log'[i].cb = "finalize"
           /\ Len(completed_sessions') >= Len(completed_sessions)
           /\ SubSeq(completed_sessions', 1, Len(completed_sessions)) = completed_sessions
           /\ ~call'.raised =>
                  /\ \A o \in F :
                         /\ heap'[o] = [heap[o] EXCEPT !.state = COMPLETED]
                         /\ o \notin ActiveObjsAfter
                         /\ o \in Range(completed_sessions')
                  /\ Len(completed_sessions') = Len(completed_sessions) + Cardinality(F)]_vars

C4_Witness ==
    /\ call.op = "tick" /\ ~call.raised
    /\ \E i \in 1..Len(cb_log) :
           LET o == cb_log[i].obj
           IN /\ cb_log[i].cb = "finalize"
              /\ heap[o].state = COMPLETED
              /\ call.now = heap[o].cooldown_start_time + CooldownSeconds
              /\ completed_sessions[Len(completed_sessions)] = o

\* C5: on_no_motion(now) moves every RECORDING session to COOLDOWN with
\* cooldown_start_time = now, leaves every session already in COOLDOWN (and
\* everything else) unchanged, and with no active session changes nothing.
C5_NoMotionOnlyStartsCooldown ==
    [][IsCall("no_motion") =>
        /\ Len(heap') = Len(heap)
        /\ \A o \in 1..Len(heap) :
               IF o \in ActiveObjs /\ heap[o].state = RECORDING
               THEN heap'[o] = [heap[o] EXCEPT !.state = COOLDOWN,
                                               !.cooldown_start_time = call'.now]
               ELSE heap'[o] = heap[o]
        /\ active_sessions' = active_sessions
        /\ completed_sessions' = completed_sessions
        /\ cb_log' = <<>>
        /\ n_start' = n_start /\ n_finalize' = n_finalize]_vars

C5_Witness ==
    /\ call.op = "no_motion"
    /\ \E o \in ActiveObjs :
           /\ heap[o].state = COOLDOWN
           /\ heap[o].cooldown_start_time < call.now

\* C7: cooldown_start_time is set iff the session is in COOLDOWN.
C7_CooldownStartSetIffCooldown ==
    \A o \in 1..Len(heap) :
        (heap[o].cooldown_start_time # None) <=> (heap[o].state = COOLDOWN)

(***************************************************************************)
(* Properties of Session (SpecSession)                                     *)
(***************************************************************************)
\* C6: a Session method changes the session only along the five listed
\* transitions; every other (state, method) pair leaves state,
\* last_activity_time and cooldown_start_time unchanged.
C6_OnlyListedTransitions ==
    [][sop'.n # sop.n =>
        LET op == sop'.op
            t == sop'.t
        IN IF sess.state = RECORDING /\ op = "enter_cooldown"
           THEN sess' = [sess EXCEPT !.state = COOLDOWN, !.cooldown_start_time = t]
           ELSE IF sess.state = COOLDOWN /\ op = "extend_recording"
           THEN sess' = [sess EXCEPT !.state = RECORDING, !.cooldown_start_time = None,
                                     !.last_activity_time = t]
           ELSE IF sess.state = RECORDING /\ op = "extend_recording"
           THEN sess' = [sess EXCEPT !.last_activity_time = t]
           ELSE IF sess.state = COOLDOWN /\ op = "enter_finalizing"
           THEN sess' = [sess EXCEPT !.state = FINALIZING]
           ELSE IF sess.state = FINALIZING /\ op = "complete"
           THEN sess' = [sess EXCEPT !.state = COMPLETED]
           ELSE /\ sess'.state = sess.state
                /\ sess'.last_activity_time = sess.last_activity_time
                /\ sess'.cooldown_start_time = sess.cooldown_start_time]_vars

\* C8: once a Session is COMPLETED no later operation changes any of its fields.
C8_CompletedIsFrozen ==
    [][sess.state = COMPLETED => sess' = sess]_vars


(***************************************************************************)
(* Properties of the recorder fan-out (SpecFanout)                         *)
(***************************************************************************)
InAddClip(th) == pc[th] \in {"exists", "copy"}

Finished(w) == pc[w] \in {"idle", "dead"} /\ handled[w].clip # 0

\* C9: every clip notification accepted by the fan-out ends up in the clip
\* list of every recorder that was registered when it was accepted, whatever
\* the detection thread does to the recorders map meanwhile.  Checked in the
\* form the claim implies: once a watcher is done with an accepted clip,
\* every recorder that was registered at acceptance and still is holds it.
C9_AcceptedClipReachesEveryRecorder ==
    \A w \in Watchers :
        Finished(w) =>
            \A r \in handled[w].snap \cap Registered :
                handled[w].clip \in Range(recs[r].clips)

\* C10: in every recorder each clip name appears at most once in the clip
\* list, and no two threads are between the existence check and the append
\* of add_clip on the same recorder at once.
C10_NoDuplicateAndSerialized ==
    /\ \A r \in 1..Len(recs) :
           \A i, j \in 1..Len(recs[r].clips) :
               recs[r].clips[i] = recs[r].clips[j] => i = j
    /\ \A t1, t2 \in Threads :
           InAddClip(t1) /\ InAddClip(t2) /\ rec[t1] = rec[t2] => t1 = t2

\* two threads are in add_clip of one recorder with the same clip: one holds
\* the lock, the other waits for it
C10_Witness ==
    \E t1, t2 \in Threads :
        /\ t1 # t2
        /\ InAddClip(t1) /\ pc[t2] = "acquire"
        /\ rec[t1] = rec[t2] /\ clip[t1] = clip[t2]
        /\ recs[rec[t1]].lock = t1

\* C11: delivering one clip notification twice, from the native watcher and
\* from the poller, is the same as delivering it once: the clip callback is
\* not invoked by both watchers for the same clip.
C11_CallbackOncePerClip ==
    \A w1, w2 \in Watchers :
        /\ handled[w1].clip # 0
        /\ handled[w1].clip = handled[w2].clip
        /\ handled[w1].called /\ handled[w2].called
        => w1 = w2

\* C12: when a session's finalization fails, its working directory and all
\* its clip copies stay on disk, whatever the core does later (shutdown
\* included).
C12_FailedSessionDirIsKept ==
    \A r \in 1..Len(recs) :
        recs[r].failed =>
            /\ dirs[recs[r].session_id].exists
            /\ Range(recs[r].clips) \subseteq dirs[recs[r].session_id].files

\* C13: a failed finalization of one session does not affect the others:
\* after an on_session_finalize callback has failed (its session is still
\* FINALIZING in the active map), a motion event arriving when no session
\* is RECORDING or COOLDOWN starts a new session.
C13_MotionAfterFailedFinalizeStarts ==
    [][(/\ IsCall("motion")
        /\ \E o \in ActiveObjs : heap[o].state = FINALIZING
        /\ \A o \in ActiveObjs : heap[o].state \notin {RECORDING, COOLDOWN})
       => /\ n_start' = n_start + 1
          /\ \E o \in ActiveObjsAfter : heap'[o].state = RECORDING]_vars

(***************************************************************************)
(* Properties of the concat manifest (SpecConcat)                          *)
(***************************************************************************)
\* C14: the concat manifest lists the session's clips in ascending segment
\* index, for every set of segment names the transcoder produces, indices
\* that outgrow the four-digit padding included.
C14_ManifestInSegmentOrder ==
    \A i, j \in 1..Len(concat.lines) :
        i < j => concat.lines[i] < concat.lines[j]

(***************************************************************************)
(* Properties of the rolling buffer (SpecBuffer)                           *)
(***************************************************************************)
\* C15: whatever the arrival of segments, the number of clip_*.ts files in
\* the buffer directory never exceeds max_segments + overflow margin.
C15_BufferCountBounded ==
    Cardinality(seg_files) <= max_segments + SEGMENT_OVERFLOW_MARGIN

CeilDiv(a, b) == (a + b - 1) \div b

\* C16: get_preroll_clips(seconds) returns the last
\* min(n, ceil(seconds / segment_duration) + 1) segments of the ascending
\* list of the n buffered segments.
C16_PrerollIsCeilPlusOneTail ==
    buf_call.op = "get_preroll_clips" =>
        LET all == sorted_by_index(buf_call.before)
            n == Len(all)
            want == CeilDiv(buf_call.seconds, SegmentDuration) + 1
            k == IF n < want THEN n ELSE want
        IN buf_call.ret = SubSeq(all, n - k + 1, n)

(***************************************************************************)
(* Properties of HLSBuffer.start (SpecStart)                               *)
(***************************************************************************)
LeftoverNames ==
    { <<"c","l","i","p","_","1",".","t","s">>,
      <<"c","l","i","p","_",".","t","s">>,
      <<"s","t","r","e","a","m",".","m","3","u","8">> }

Leftover(e) == e.top /\ e.kind = "file" /\ e.name \in LeftoverNames

UnderTemp(p) == IsPrefix(<<"tmp">>, p) \/ IsPrefix(<<"mnt", "ramdisk">>, p)

Marked(p) == \E i \in 1..Len(p) : p[i] \in {"device-pilot", "device-pilot-recordings"}

\* C18: every directory tree the system has deleted is at a real path under
\* a temporary-storage prefix that contains "device-pilot".
C18_DeletionsOnlyOnSafePaths ==
    \A p \in rm_log : UnderTemp(p) /\ Marked(p)

\* C19: the evidence directory and every evidence file written so far exist,
\* whatever sessions_dir and evidence_dir are.
C19_EvidenceIsNeverDeleted ==
    phase # "off" =>
        /\ \E e \in fs : e.path = resolve(cfg.evidence_dir)
        /\ \A f \in evidence : \E e \in fs : e.path = f

(***************************************************************************)
(* Properties of the detector (SpecDetector)                               *)
(***************************************************************************)
\* C20: once analyze_frame has reported motion, it reports no motion only
\* when the last HYSTERESIS_FRAMES frames analyzed, this one included, all
\* had a smoothed score at or below the threshold; a frame above the
\* threshold in between starts the count again.
C20_MotionClearsOnlyAfterFullRun ==
    [][(det_result'.op = "analyze" /\ motion_state /\ ~motion_state')
       => low_run' >= HYSTERESIS_FRAMES]_vars

\* analyze_frame has just cleared motion: the detector was in the motion
\* state and this frame completed the run of low frames
C20_Witness ==
    /\ det_result.op = "analyze" /\ ~det_result.motion_detected
    /\ ~motion_state
    /\ low_motion_count >= HYSTERESIS_FRAMES
    /\ Len(motion_scores) = SMOOTHING_WINDOW


\* C21: with the smoothing window full of frames whose raw score is at or
\* below motion_threshold and no motion reported, one more frame, whatever
\* its raw score, does not make analyze_frame report motion; and motion is
\* first reported only on a frame on which the mean of the window is above
\* the threshold.
C21_SingleFrameDoesNotTrigger ==
    [][(det_result'.op = "analyze" /\ ~motion_state)
       => /\ (/\ Len(motion_scores) = SMOOTHING_WINDOW
              /\ \A i \in 1..Len(motion_scores) : motion_scores[i] <= MotionThreshold)
             => ~det_result'.motion_detected
          /\ det_result'.motion_detected
             => Sum(motion_scores') > MotionThreshold * Len(motion_scores')]_vars

\* C22: the brightness_delta of a frame is the distance to the brightness
\* of the frame analyzed before it (0 when there is none since construction
\* or reset), light_event_detected says that the delta is above
\* light_jump_threshold, and _last_brightness is the brightness of the frame
\* just analyzed; a frame identical to the one before reports no event.
C22_LightEventIsThePerFrameJump ==
    [][det_result'.op = "analyze"
       => /\ det_result'.brightness_delta =
                 (IF prev_brightness = None THEN 0
                  ELSE Abs(det_result'.brightness - prev_brightness))
          /\ det_result'.light_event_detected
                 = (det_result'.brightness_delta > LightJumpThreshold)
          /\ last_brightness' = det_result'.brightness
          /\ det_result'.brightness = prev_brightness
                 => (det_result'.brightness_delta = 0
                     /\ ~det_result'.light_event_detected)]_vars

\* the frame after a reported brightness jump had the same brightness and
\* reported no light event
C22_Witness ==
    /\ det_result.op = "analyze" /\ det_result.after_light
    /\ ~det_result.light_event_detected /\ det_result.brightness_delta = 0
    /\ last_brightness = det_result.brightness

\* C23: reset leaves the detector as constructed, and the first frame
\* analyzed after a reset reports no light event, a brightness_delta of 0
\* and no motion.
C23_ResetThenFirstFrameIsQuiet ==
    [][/\ det_result'.op = "reset"
          => /\ motion_scores' = <<>> /\ ~motion_state' /\ low_motion_count' = 0
             /\ last_brightness' = None
       /\ (det_result.op = "reset" /\ det_result'.op = "analyze")
          => /\ ~det_result'.light_event_detected
             /\ det_result'.brightness_delta = 0
             /\ ~det_result'.motion_detected]_vars


(***************************************************************************)
(* Properties of PilotSystem.stop (SpecStop)                               *)
(***************************************************************************)
\* C24: however stop() is called (run's finally, signal handler, at-exit
\* hook, nested or in sequence), stop() runs _on_session_finalize at most
\* once per session and stops each component at most once, and the
\* watcher and the transcoder are terminated at most once.
C24_StopTwiceIsStopOnce ==
    /\ \A i \in SessionDirIds : finalize_calls[i] <= 1
    /\ stop_calls.cleanup <= 1 /\ stop_calls.release <= 1 /\ stop_calls.buffer_stop <= 1
    /\ stop_calls.watcher_stopped <= 1 /\ stop_calls.ffmpeg_terminated <= 1

\* C25: stop() stops the buffer watcher before anything else, so no clip is
\* distributed once stop() has begun and no session is finalized by stop()
\* while the watcher runs; the capture is released after the watcher has
\* stopped and the transcoder is stopped after the capture; and when an
\* outermost stop() returns, every session active at its call has had
\* _on_session_finalize run.
C25_WatcherFirstThenDecoderThenBuffer ==
    /\ ~stop_seen.clip_in_stop
    /\ (\E i \in SessionDirIds : finalize_calls[i] > 0) => ~comp.watcher
    /\ ~comp.capture => ~comp.watcher
    /\ ~comp.ffmpeg => ~comp.capture
    /\ stop_seen.unfinalized = {}


(***************************************************************************)
(* Properties of sessions with repeated ids (SpecIds)                      *)
(***************************************************************************)
\* C26: whether or not two sessions were given the same id, the clip list
\* of every active session holds exactly the pre-roll and later clips it
\* was given, and the output of a saved session was made of exactly those.
C26_SameIdSessionsKeepTheirClips ==
    \A k \in 1..Len(id_recs) :
        /\ id_recs[k].state = "active" => Range(id_recs[k].clips) = id_recs[k].offered
        /\ id_recs[k].state = "saved" => Range(id_recs[k].output) = id_recs[k].offered


\* C27: a get_clips call logs the overflow warning exactly when it sees
\* more than max_segments + SEGMENT_OVERFLOW_MARGIN segments and either no
\* warning was logged before or some call since the last warning saw at
\* most max_segments; a call that sees a count in between neither warns
\* nor re-arms the warning.
C27_OverflowWarningIsEdgeTriggered ==
    [][buf_call'.op = "get_preroll_clips" /\ buf_call' # buf_call
       => LET count == Cardinality(buf_call'.before)
          IN /\ buf_call'.warned
                 = (count > max_segments + SEGMENT_OVERFLOW_MARGIN /\ quiet_seen)
             /\ (count > max_segments /\ ~buf_call'.warned)
                 => quiet_seen' = quiet_seen]_vars

\* the warning has been logged for a second overflow
C27_Witness ==
    /\ buf_call.op = "get_preroll_clips" /\ buf_call.warned
    /\ warnings = 2


(***************************************************************************)
(* Properties of the detection loop (SpecLoop)                             *)
(***************************************************************************)
\* C28: no iteration of the loop ends in the catch-all error pause, under
\* the PilotConfig of config.py or any other configuration; detection is
\* enabled from the first iteration that starts at or after the startup
\* delay, and from then on an iteration that reads a frame analyzes it.
C28_LoopEnablesDetectionAndAnalyzes ==
    /\ loop_last.kind # "error"
    /\ (/\ loop_last.kind \in {"warmup", "read_failed", "analyzed"}
        /\ loop_cfg.startup_delay_seconds # None
        /\ loop_last.at >= loop_cfg.startup_delay_seconds)
       => /\ detection_enabled
          /\ loop_last.ret => loop_last.kind = "analyzed"

\* C29: an analyzed frame for which the detector reports a light event is
\* forwarded to the session manager as on_motion_detected, whatever
\* min_motion_seconds is.
C29_LightEventIsForwarded ==
    (loop_last.kind = "analyzed" /\ loop_last.light)
    => loop_last.forwarded = "on_motion_detected"


(***************************************************************************)
(* Properties of the reconnection (SpecReconnect)                          *)
(***************************************************************************)
\* C30: within one disconnection episode the extended-outage rule restarts
\* the buffer at most once, whatever the number of attempts and of
\* _reconnect_capture invocations, and it has restarted it once a read or
\* a reconnection has failed more than 120 s into an episode in which no
\* reconnection succeeded.
C30_OneOutageRestartPerEpisode ==
    /\ episode.restarts <= 1
    /\ episode.overdue => episode.restarts = 1


(***************************************************************************)
(* Properties of the reconnection backoff (SpecReconnect)                  *)
(***************************************************************************)
\* 2^n
RECURSIVE Pow2(_)
Pow2(n) == IF n = 0 THEN 1 ELSE 2 * Pow2(n - 1)

\* C31: within one _reconnect_capture invocation the wait before the k-th
\* attempt is min(2^(k-1), max_reconnect_delay) seconds, no wait exceeds
\* max_reconnect_delay, and the invocation returns True only after
\* detector.reset().
C31_BackoffIsCappedDoubling ==
    attempt.k >= 1 =>
        /\ attempt.wait = Min(Pow2(attempt.k - 1), max_reconnect_delay)
        /\ attempt.wait <= max_reconnect_delay
        /\ attempt.returned => attempt.reset


C33_ActiveIsRecordingOrCooldown ==
    \A i \in 1..Len(active_sessions) :
        heap[active_sessions[i][2]].state \in {RECORDING, COOLDOWN}


(***************************************************************************)
(* Properties of the clip copies of a session (SpecIds)                    *)
(***************************************************************************)
\* C34: a copy in a registered session's directory that was made while the
\* segment was still being written does not stay truncated once the
\* segment has closed and its notification was handled.
C34_ClosedSegmentCopiesAreComplete ==
    \A id \in Ids :
        id_registry[id] # 0 =>
            \A p \in id_partial[id] : ~(p[1] = id_gen /\ p[2] <= id_segments)


\* C35: after a restart of the buffer with the watcher running, every
\* segment the restarted transcoder closes while a session is active and
\* registered is copied into that session's directory, whatever names
\* earlier segments had.
C35_SegmentsAfterRestartAreDelivered ==
    \A id \in Ids :
        LET k == id_registry[id]
        IN (k # 0 /\ k = id_active) =>
               \A s \in id_recs[k].due : s[1] >= 1 => s \in id_recs[k].copied

\* C36: the recorder registry holds only sessions for which
\* on_session_finalize has not been invoked, so that no clip notification
\* reaches a finalized session, whether its finalization succeeded or not.
C36_RegistryHoldsOnlyUnfinalized ==
    \A id \in Ids :
        id_registry[id] # 0 => id_recs[id_registry[id]].state = "active"


(***************************************************************************)
(* Further properties of shutdown (SpecStop)                               *)
(***************************************************************************)
\* C37: a stop() called by the signal handler never waits for a recorder
\* lock held by the call of SessionRecorder.finalize that the signal
\* interrupted (a wait that cannot end, so that stop() would not return).
C37_StopNeverWaitsForInterruptedFinalize ==
    \A i \in 1..Len(stop_frames) : stop_frames[i].pc # "acquire"


\* C38: once a stop() has run through (it released the capture and
\* stopped the buffer) and run() has returned, neither the transcoder nor
\* the detection capture is running, wherever the shutdown signal arrived.
C38_NothingRunsAfterShutdown ==
    (/\ main_pc \in {"exited", "done"}
     /\ stop_frames = <<>>
     /\ stop_calls.release >= 1 /\ stop_calls.buffer_stop >= 1)
        => ~comp.ffmpeg /\ ~comp.capture


\* C39: once a stop() has run through and returned, the session manager's
\* active map is empty: the sessions that were active when shutdown began
\* have been completed and removed from it.
C39_NoActiveSessionAfterStop ==
    (stop_frames = <<>> /\ stop_calls.buffer_stop >= 1) => pilot_sessions = {}


(***************************************************************************)
(* Further properties of the rolling buffer (SpecBuffer)                   *)
(***************************************************************************)
\* C40: the list a get_clips() call returns holds no segment that the call
\* itself removed from the buffer directory as overflow.
C40_ReturnedClipsStillExist ==
    [][buf_call' # buf_call /\ buf_call'.op = "get_preroll_clips"
       => Range(get_clips(seg_files)) \subseteq seg_files']_vars

=============================================================================
